---- MODULE Spec2Model ----
(***************************************************************************)
(* Model of the agentic loop orchestrator of sahaidachny:                  *)
(*   saha/orchestrator/loop.py   (AgenticLoop, InterruptHandler)           *)
(*   saha/orchestrator/state.py  (StateManager)                            *)
(*   saha/models/state.py        (ExecutionState, IterationRecord)         *)
(*                                                                         *)
(* One orchestrator process at a time works on one task id.  The in-memory *)
(* ExecutionState is the variable `state`, the YAML document of the task   *)
(* is `disk`.  `pc` is the position of the orchestrator inside run(): the  *)
(* blocking backend calls ("*_call") and the interrupt checks between      *)
(* phases ("loop_top", "after_*").  Every action runs the code from one    *)
(* such position to the next.                                              *)
(*                                                                         *)
(* Python values: None is the string "None", the empty string is "".       *)
(* Timestamps are modelled only as set / not set.  files_changed,          *)
(* files_added and last_agent_output never influence control flow and are  *)
(* left out of the records.                                                *)
(***************************************************************************)
EXTENDS Integers, Sequences, FiniteSets, TLC

VARIABLES
    state,              \* in-memory ExecutionState of the running orchestrator
    disk,               \* persisted Execution State document of the task, or NoState
    pc,                 \* position of the orchestrator
    interrupt_count,    \* InterruptHandler.interrupt_count
    handler_installed,  \* TRUE while InterruptHandler's SIGINT handler is in place
    stopped_at_phase,   \* local of _run_manager_on_iteration_stop
    stop_reason,        \* error text of a failed Implementation, kept for fail_phase
    outcome,            \* how the last run()/resume() call ended
    runs,               \* number of run()/resume() calls made so far
    impl_calls,         \* what each Implementation invocation of this run received
    resumed_from,       \* context of the document resume() loaded for this run
    last_call,          \* the backend result received last, until the next phase starts
    plan_doc,           \* the plan document the task directory offers during this run, or None
    settings,           \* Settings handed to create_orchestrator
    installed,          \* backend CLIs found on PATH (shutil.which)
    registry,           \* the RunnerRegistry of the orchestrator, or None
    live_runners,       \* backend type of every Runner instance constructed so far
    orchestrator,       \* outcome of create_orchestrator and the default runner it holds
    resolved,           \* the last get_runner_for_agent call: agent and instance returned
    runner_call,        \* a runner's backend call: mode, timeout, position and result
    subprocess,         \* the backend CLI process of that call
    clock,              \* seconds elapsed since the call started
    agent_text,         \* text output of an agent, handed to the JSON extraction
    structured_output,  \* what the JSON extraction returned for agent_text
    raw_usage,          \* usage map reported by a backend
    token_usage,        \* the normalized usage computed from raw_usage
    plan_dir,           \* status line of every plan document of the task directory
    selected,           \* what select_active_phase returned last
    previous_handler    \* the SIGINT handler of the process outside run(), as signal.signal returns it

orchestrator_vars ==
    << state, disk, pc, interrupt_count, handler_installed, stopped_at_phase,
       stop_reason, outcome, runs, impl_calls, resumed_from, last_call, plan_doc >>

registry_vars == << settings, installed, registry, live_runners, orchestrator, resolved >>

call_vars == << runner_call, subprocess, clock >>

normalizer_vars == << agent_text, structured_output, raw_usage, token_usage >>

plan_vars == << plan_dir, selected >>

\* the components around the loop, which a run of the loop leaves alone
component_vars == << registry_vars, call_vars, normalizer_vars, plan_vars, previous_handler >>

vars == << orchestrator_vars, component_vars >>

----------------------------------------------------------------------------
(* Bounds *)

MaxIterations == 2
MaxRuns == 2
MaxOverrides == 2
MaxTimeout == 2
MaxClock == 4
MaxSegments == 3
MaxKeys == 3
MaxTokens == 1
MaxRetries == 3

----------------------------------------------------------------------------
(* Python values *)

None == "None"

Falsy(v) == v \in {None, ""}

\* Python's `a or b`
PyOr(a, b) == IF Falsy(a) THEN b ELSE a

\* dict.get(key) with default None
DictGet(d, k) == IF k \in DOMAIN d THEN d[k] ELSE None

\* d[key] = value
DictSet(d, k, v) == [x \in (DOMAIN d) \cup {k} |-> IF x = k THEN v ELSE d[x]]

EmptyDict == [x \in {} |-> None]

----------------------------------------------------------------------------
(* saha/models/state.py *)

IDLE == "idle"
IMPLEMENTATION == "implementation"
TEST_CRITIQUE == "test_critique"
QA == "qa"
CODE_QUALITY == "code_quality"
MANAGER == "manager"
DOD_CHECK == "dod_check"
STOPPED == "stopped"
COMPLETED == "completed"
FAILED == "failed"

LoopPhase == {IDLE, IMPLEMENTATION, TEST_CRITIQUE, QA, CODE_QUALITY, MANAGER,
              DOD_CHECK, STOPPED, COMPLETED, FAILED}

IN_PROGRESS == "in_progress"
STEP_COMPLETED == "completed"
STEP_FAILED == "failed"

StepRecord(phase, status, error) ==
    [phase |-> phase, status |-> status, error |-> error]

IterationRecord(n) ==
    [iteration |-> n, completed_at |-> FALSE, steps |-> << >>,
     test_critique_passed |-> FALSE, dod_achieved |-> FALSE,
     quality_passed |-> FALSE, fix_info |-> None]

ExecutionState(max_iterations) ==
    [current_phase |-> IDLE, current_iteration |-> 0,
     max_iterations |-> max_iterations, completed_at |-> FALSE,
     error_message |-> None, iterations |-> << >>, context |-> EmptyDict]

\* mutant: the record is numbered with the counter before its increment
start_iteration_StaleNumber(s) ==
    [s EXCEPT !.current_iteration = @ + 1,
              !.iterations = Append(@, IterationRecord(s.current_iteration))]

start_iteration(s) ==
    [s EXCEPT !.current_iteration = @ + 1,
              !.iterations = Append(@, IterationRecord(s.current_iteration + 1))]

record_step(s, phase, status, error) ==
    LET s1 == IF s.iterations = << >> THEN start_iteration(s) ELSE s
        n == Len(s1.iterations)
    IN  [s1 EXCEPT !.iterations[n].steps = Append(@, StepRecord(phase, status, error))]

\* assignment to a field of the record start_iteration() returned (the last one)
SetIterationField(s, field, value) ==
    [s EXCEPT !.iterations[Len(s.iterations)][field] = value]

current_iteration_record(s) == s.iterations[Len(s.iterations)]

----------------------------------------------------------------------------
(* saha/orchestrator/state.py: StateManager.  A machine m is the pair of    *)
(* the in-memory state and the persisted document.                          *)

NoState == [exists |-> FALSE]

Machine(s, d) == [mem |-> s, disk |-> d]

\* YAML nodes of the state document: scalars are tagged with their type
YamlStr(v) == [t |-> "str", v |-> v]
YamlNull == [t |-> "null", v |-> ""]
YamlInt(n) == [t |-> "int", v |-> n]
YamlBool(b) == [t |-> "bool", v |-> b]
YamlList(elems) == [t |-> "list", v |-> elems]
YamlMap(entries) == [t |-> "map", v |-> entries]

\* `str | None` and `datetime | None` fields under model_dump(mode="json")
OptStr(v) == IF v = None THEN YamlNull ELSE YamlStr(v)
Timestamp(is_set) == IF is_set THEN YamlStr("timestamp") ELSE YamlNull

TaskId == "TASK-01"
TaskPath == "docs/tasks/TASK-01"

\* the keys the orchestrator puts into context, in a fixed order
ContextKeys == << "current_plan_phase", "fix_info" >>

dump_step(st) ==
    YamlMap(<< << "phase", YamlStr(st.phase) >>, << "status", YamlStr(st.status) >>,
           << "error", OptStr(st.error) >> >>)

dump_iteration(rec) ==
    YamlMap(<< << "iteration", YamlInt(rec.iteration) >>,
           << "completed_at", Timestamp(rec.completed_at) >>,
           << "steps", YamlList([k \in 1..Len(rec.steps) |-> dump_step(rec.steps[k])]) >>,
           << "test_critique_passed", YamlBool(rec.test_critique_passed) >>,
           << "dod_achieved", YamlBool(rec.dod_achieved) >>,
           << "quality_passed", YamlBool(rec.quality_passed) >>,
           << "fix_info", OptStr(rec.fix_info) >> >>)

dump_context(ctx) ==
    LET keys == SelectSeq(ContextKeys, LAMBDA k : k \in DOMAIN ctx)
    IN  YamlMap([i \in 1..Len(keys) |-> << keys[i], OptStr(ctx[keys[i]]) >>])

\* StateManager._serialize_state followed by yaml.dump(sort_keys=False): the
\* top-level entries of the document in field order
serialize_state(s) ==
    << << "task_id", YamlStr(TaskId) >>,
       << "task_path", YamlStr(TaskPath) >>,
       << "current_phase", YamlStr(s.current_phase) >>,
       << "current_iteration", YamlInt(s.current_iteration) >>,
       << "max_iterations", YamlInt(s.max_iterations) >>,
       << "completed_at", Timestamp(s.completed_at) >>,
       << "error_message", OptStr(s.error_message) >>,
       << "iterations",
          YamlList([i \in 1..Len(s.iterations) |-> dump_iteration(s.iterations[i])]) >>,
       << "context", dump_context(s.context) >> >>

HasKey(entries, key) == \E i \in 1..Len(entries) : entries[i][1] = key

GetKey(entries, key) == entries[CHOOSE i \in 1..Len(entries) : entries[i][1] = key][2]

\* a field of a pydantic model: the document's value or the field's default
Field(entries, key, default) ==
    IF HasKey(entries, key) THEN GetKey(entries, key) ELSE default

LoadOptStr(node) == IF node.t = "null" THEN None ELSE node.v

validate_step(node) ==
    StepRecord(GetKey(node.v, "phase").v,
               Field(node.v, "status", YamlStr("pending")).v,
               LoadOptStr(Field(node.v, "error", YamlNull)))

validate_iteration(node) ==
    LET steps == Field(node.v, "steps", YamlList(<< >>)).v
    IN  [iteration |-> GetKey(node.v, "iteration").v,
         completed_at |-> Field(node.v, "completed_at", YamlNull).t # "null",
         steps |-> [k \in 1..Len(steps) |-> validate_step(steps[k])],
         test_critique_passed |-> Field(node.v, "test_critique_passed", YamlBool(FALSE)).v,
         dod_achieved |-> Field(node.v, "dod_achieved", YamlBool(FALSE)).v,
         quality_passed |-> Field(node.v, "quality_passed", YamlBool(FALSE)).v,
         fix_info |-> LoadOptStr(Field(node.v, "fix_info", YamlNull))]

\* mutant: the context of the document is not read back
validate_context_Dropped(node) == EmptyDict

validate_context(node) ==
    [k \in {node.v[i][1] : i \in 1..Len(node.v)} |-> LoadOptStr(GetKey(node.v, k))]

\* ExecutionState.model_validate(data): task_id and task_path are required,
\* every other field falls back to its default
model_validate(entries) ==
    IF ~HasKey(entries, "task_id") \/ ~HasKey(entries, "task_path")
    THEN [ok |-> FALSE, why |-> "invalid"]
    ELSE LET iterations == Field(entries, "iterations", YamlList(<< >>)).v
         IN  [ok |-> TRUE,
              task_id |-> GetKey(entries, "task_id").v,
              state |->
                [current_phase |-> Field(entries, "current_phase", YamlStr(IDLE)).v,
                 current_iteration |-> Field(entries, "current_iteration", YamlInt(0)).v,
                 max_iterations |-> Field(entries, "max_iterations", YamlInt(10)).v,
                 completed_at |-> Field(entries, "completed_at", YamlNull).t # "null",
                 error_message |-> LoadOptStr(Field(entries, "error_message", YamlNull)),
                 iterations |-> [i \in 1..Len(iterations) |-> validate_iteration(iterations[i])],
                 context |-> validate_context(Field(entries, "context", YamlMap(<< >>)))]]

\* StateManager.load on an existing file: `if not data: return None`, then validation
load(file) ==
    IF file = << >> THEN [ok |-> FALSE, why |-> "empty"] ELSE model_validate(file)

\* the persisted document as a reader gets it from the file's content
OnDisk(file) ==
    LET loaded == load(file)
    IN  IF loaded.ok
        THEN [exists |-> TRUE, doc |-> loaded.state]
        ELSE [exists |-> FALSE, unreadable |-> loaded.why]

\* StateManager.save run to its end: the file is opened for writing
\* (truncated) and the whole document is written; a reader of the complete
\* document gets the saved state back (RoundTrip below states it)
save(m) == [m EXCEPT !.disk = [exists |-> TRUE, doc |-> m.mem]]

\* StateManager.save cut short by the death of the process: open("w") has
\* truncated the file and yaml.dump has written the first k top-level entries
torn_save(m, k) == [m EXCEPT !.disk = OnDisk(SubSeq(serialize_state(m.mem), 1, k))]

delete(m) == [m EXCEPT !.disk = NoState]

\* mutant: the new state inherits the context of the state it replaces
create_KeepsContext(m, max_iterations) ==
    save([m EXCEPT !.mem = [ExecutionState(max_iterations) EXCEPT !.context = m.mem.context]])

create(m, max_iterations) == save([m EXCEPT !.mem = ExecutionState(max_iterations)])

update_phase(m, phase) ==
    save([m EXCEPT !.mem =
            record_step([m.mem EXCEPT !.current_phase = phase], phase, IN_PROGRESS, None)])

complete_phase(m, phase) ==
    save([m EXCEPT !.mem = record_step(m.mem, phase, STEP_COMPLETED, None)])

\* mutant: the failed step is recorded but the loop phase is left as it was
fail_phase_PhaseKept(m, phase, error) ==
    save([m EXCEPT !.mem =
            record_step([m.mem EXCEPT !.error_message = error], phase, STEP_FAILED, error)])

fail_phase(m, phase, error) ==
    save([m EXCEPT !.mem =
            record_step([m.mem EXCEPT !.current_phase = FAILED, !.error_message = error],
                        phase, STEP_FAILED, error)])

\* mutant: the completion time is set but the phase is left as it was
mark_completed_PhaseKept(m) ==
    save([m EXCEPT !.mem.completed_at = TRUE])

mark_completed(m) ==
    save([m EXCEPT !.mem.current_phase = COMPLETED, !.mem.completed_at = TRUE])

mark_failed(m, error) ==
    save([m EXCEPT !.mem =
            record_step([m.mem EXCEPT !.current_phase = FAILED, !.completed_at = TRUE,
                                      !.error_message = error],
                        FAILED, STEP_FAILED, error)])

\* StateManager.mark_stopped is called by _handle_interrupt (loop.py:252) but
\* its body is not part of the available state.py; it is modelled on
\* mark_completed / mark_failed and on what the callers read back
\* (commands/execution.py:213 prints error_message as the stop reason).
mark_stopped(m, reason) ==
    save([m EXCEPT !.mem.current_phase = STOPPED, !.mem.completed_at = TRUE,
                   !.mem.error_message = reason])

----------------------------------------------------------------------------
(* Backend results (saha/runners/base.py RunnerResult), as far as the       *)
(* orchestrator reads them.  `so` tells whether structured_output is None,  *)
(* an empty dict (falsy) or a non-empty dict; `flag` is the value of the    *)
(* phase's verdict key in it ("absent" when the key is missing), `fix_info` *)
(* the value of its "fix_info" key.                                         *)

FixTexts == {"F1"}
FixValues == {None} \cup FixTexts
Outputs == {"O1"}
Errors == {None, "E1"}
Flags == {"absent", "true", "false"}
DodFlags == Flags \cup {"null", "0", "1"}

RunnerResult(success, so, flag, fix_info, output, error) ==
    [success |-> success, so |-> so, flag |-> flag, fix_info |-> fix_info,
     output |-> output, error |-> error]

FailureResults == { RunnerResult(FALSE, "none", "absent", None, "", e) : e \in Errors }

NoPayloadResults ==
    { RunnerResult(TRUE, so, "absent", None, o, None) : so \in {"none", "empty"}, o \in Outputs }

PayloadResults(flags) ==
    { RunnerResult(TRUE, "dict", f, fi, o, None) : f \in flags, fi \in FixValues, o \in Outputs }

ImplResults == FailureResults \cup { RunnerResult(TRUE, "dict", "absent", None, "O1", None) }
GateResults == FailureResults \cup NoPayloadResults \cup PayloadResults(Flags)
ManagerResults == FailureResults \cup { RunnerResult(TRUE, "none", "absent", None, "O1", None) }
DodResults == FailureResults \cup NoPayloadResults \cup PayloadResults(DodFlags)

\* `result.success and result.structured_output`
HasPayload(r) == r.success /\ r.so = "dict"

\* structured_output.get(key, default) for a verdict key
FlagGet(r, default) == IF r.flag = "absent" THEN default ELSE r.flag = "true"

\* bool(structured_output.get("task_complete", False))
PyBool(flag) == flag \in {"true", "1"}

\* a received result: the phase it belongs to, what the backend returned and
\* the fix_info of the result object the phase method built from it
Received(phase, r, fix_info) ==
    [phase |-> phase, success |-> r.success, so |-> r.so, flag |-> r.flag,
     error |-> r.error, fix_info |-> fix_info]

NoCall == [phase |-> None, success |-> FALSE, so |-> "none", flag |-> "absent",
           error |-> None, fix_info |-> None]

----------------------------------------------------------------------------
(* Plan progress (saha/orchestrator/plan_progress.py), as far as it touches *)
(* the Execution State: the selected plan document is cached in context.    *)

PlanSelections == {None, "implementation-plan/phase-01.md"}

\* _prepare_plan_progress: select_active_phase + _ensure_phase_context + save.
\* `selection` is the first incomplete plan document of the task directory
\* (None without a plan directory).  Here the plan documents keep their
\* status lines during a run, so a cached selection equals it; documents
\* rewritten during the run are the subject of SpecPlanSelection.
\* str(e) of an exception raised inside PlanProgressUpdater (an OSError of
\* read_text / write_text on a plan document)
PlanUpdaterError == "plan document not accessible"

\* select_active_phase is not guarded.  Without a stored selection it reads
\* the status lines of the plan documents (OSError); with one it resolves the
\* stored path and _ensure_phase_context takes it relative_to the task path,
\* a ValueError when the task path is relative.
SelectionRaises(m, selection, plan_fails) ==
    /\ plan_fails
    /\ selection # None

\* mark_all_complete, called unguarded by _run_dod_check once the task is
\* complete and a plan updater exists, reads and rewrites every plan document
MarkAllCompleteRaises(selection, plan_fails) == plan_fails /\ selection # None

prepare_plan_progress(m, selection) ==
    LET stored == DictGet(m.mem.context, "current_plan_phase")
    IN  IF selection = None \/ stored = selection
        THEN m
        ELSE save([m EXCEPT !.mem.context = DictSet(@, "current_plan_phase", selection)])

----------------------------------------------------------------------------
(* saha/orchestrator/loop.py: helpers of AgenticLoop *)

Terminal == {COMPLETED, FAILED, STOPPED}

\* mutant: off-by-one in the iteration ceiling
should_continue_OffByOne(s) ==
    /\ s.current_phase \notin {COMPLETED, FAILED, STOPPED}
    /\ ~(s.current_iteration > s.max_iterations)

should_continue(s) ==
    /\ s.current_phase \notin {COMPLETED, FAILED, STOPPED}
    /\ ~(s.current_iteration >= s.max_iterations)

HasCompletedManagerStep(s) ==
    /\ s.iterations # << >>
    /\ \E i \in 1..Len(current_iteration_record(s).steps) :
          /\ current_iteration_record(s).steps[i].phase = MANAGER
          /\ current_iteration_record(s).steps[i].status = STEP_COMPLETED

\* mutant: the steps of the current iteration are not consulted
should_run_manager_on_interrupt_NoStepCheck(s) ==
    /\ s.current_iteration # 0
    /\ s.current_phase \notin {MANAGER, DOD_CHECK, COMPLETED, FAILED}

should_run_manager_on_interrupt(s) ==
    /\ s.current_iteration # 0
    /\ s.current_phase \notin {MANAGER, DOD_CHECK, COMPLETED, FAILED}
    /\ ~HasCompletedManagerStep(s)

\* mutant: the phase the Manager update set is left in place
restore_stopped_phase_NotRestored(m, phase) == m

\* the `finally` clause of _run_manager_on_iteration_stop
restore_stopped_phase(m, phase) ==
    IF m.mem.current_phase \notin {FAILED, COMPLETED, STOPPED}
    THEN save([m EXCEPT !.mem.current_phase = phase])
    ELSE m

\* mutant: the fix info reaches the iteration record but not the context
store_fix_info_RecordOnly(m, fix_info) ==
    save([m EXCEPT !.mem = SetIterationField(m.mem, "fix_info", fix_info)])

\* _run_iteration after a gate returned "not passed":
\* context and the iteration record get the fix info, then save
store_fix_info(m, fix_info) ==
    save([m EXCEPT !.mem = SetIterationField(
                     [m.mem EXCEPT !.context = DictSet(@, "fix_info", fix_info)],
                     "fix_info", fix_info)])

\* mutant: the iteration is closed in memory only
close_iteration_NoSave(m) ==
    [m EXCEPT !.mem = SetIterationField(m.mem, "completed_at", TRUE)]

\* the tail of _run_iteration: iteration.completed_at = now; save
close_iteration(m) ==
    save([m EXCEPT !.mem = SetIterationField(m.mem, "completed_at", TRUE)])

\* what _run_implementation hands to the backend: the context dict's fix_info
\* and the prompt's plan phase / fix text, both read from state.context
ImplementationInput(s) ==
    [iteration |-> s.current_iteration,
     fix_info |-> DictGet(s.context, "fix_info"),
     current_plan_phase |-> DictGet(s.context, "current_plan_phase")]

REASON == "Interrupted by user"

----------------------------------------------------------------------------
(* The state machine *)

NotResumed == [resumed |-> FALSE]

ResumedFrom(doc) ==
    [resumed |-> TRUE, context |-> doc.context]

----------------------------------------------------------------------------
(* saha/runners/registry.py (RunnerRegistry) and saha/orchestrator/factory.py *)
(* A Runner instance is identified by its position in live_runners; 0 is     *)
(* "no instance".  RunnerType.GEMINI is treated by this code exactly as      *)
(* CODEX and is left out.                                                    *)

RunnerTypes == {"claude", "codex", "mock"}

\* the order in which validate_configured_runners visits the configured types
TypeOrder == << "claude", "codex", "mock" >>

\* the keys of agent_mapping in create_runner_registry
MappedAgents == {"execution-implementer", "execution-qa", "execution-code-quality",
                 "execution-manager", "execution-dod"}

\* the agent names the loop asks the registry for
AgentNames == MappedAgents \cup {"execution-test-critique"}

\* an AgentRunnerConfig whose `runner` is not in model_fields_set
Unset == "unset"

\* AgentRunnerConfig.runner: the value that was set, or the field's default
RunnerField(c) == IF c = Unset THEN "claude" ELSE c

AgentSettings ==
    {a \in [MappedAgents -> RunnerTypes \cup {Unset}] :
        Cardinality({x \in MappedAgents : a[x] # Unset}) <= MaxOverrides}

\* Settings: `runner`, `agents.default_runner` and the per-agent configs
SettingsSet == [runner : RunnerTypes, default_runner : RunnerTypes, agents : AgentSettings]

DefaultSettings ==
    [runner |-> "claude", default_runner |-> "claude",
     agents |-> [a \in MappedAgents |-> Unset]]

NoRunners == [t \in RunnerTypes |-> 0]

\* mutant: an agent without explicit runner is configured with the field default
create_runner_registry_FieldDefault(s) ==
    [_runners |-> NoRunners,
     _default_runner_type |-> s.default_runner,
     _agent_configs |-> [a \in MappedAgents |-> RunnerField(s.agents[a])]]

create_runner_registry(s) ==
    [_runners |-> NoRunners,
     _default_runner_type |-> s.default_runner,
     _agent_configs |->
        [a \in MappedAgents |->
            IF s.agents[a] # Unset THEN s.agents[a] ELSE s.default_runner]]

\* mutant: the instance built from the factory is not kept
get_runner_NotCached(reg, live, rt) ==
    [registry |-> reg, live |-> Append(live, rt), runner |-> Len(live) + 1]

\* RunnerRegistry.get_runner: the cached instance, or a new one from the
\* factory (every type has a factory registered)
get_runner(reg, live, rt) ==
    IF reg._runners[rt] # 0
    THEN [registry |-> reg, live |-> live, runner |-> reg._runners[rt]]
    ELSE [registry |-> [reg EXCEPT !._runners[rt] = Len(live) + 1],
          live |-> Append(live, rt), runner |-> Len(live) + 1]

\* the backend type RunnerRegistry.get_runner_for_agent looks up
AgentRunnerType(reg, agent) ==
    IF agent \in DOMAIN reg._agent_configs
    THEN reg._agent_configs[agent]
    ELSE reg._default_runner_type

get_runner_for_agent(reg, live, agent) == get_runner(reg, live, AgentRunnerType(reg, agent))

\* Runner.is_available
is_available(rt, on_path) == rt = "mock" \/ rt \in on_path

\* configured_types of validate_configured_runners
configured_types(s) ==
    {s.default_runner} \cup {RunnerField(s.agents[a]) : a \in MappedAgents}

RECURSIVE validate_from(_, _, _, _, _, _)
validate_from(i, reg, live, types, on_path, unavailable) ==
    IF i > Len(TypeOrder)
    THEN [registry |-> reg, live |-> live, unavailable |-> unavailable]
    ELSE LET rt == TypeOrder[i]
             got == get_runner(reg, live, rt)
         IN  IF rt \notin types \/ rt = "mock"
             THEN validate_from(i + 1, reg, live, types, on_path, unavailable)
             ELSE validate_from(i + 1, got.registry, got.live, types, on_path,
                                IF is_available(rt, on_path)
                                THEN unavailable
                                ELSE unavailable \cup {rt})

\* validate_configured_runners: the registry with the runners it instantiated
\* and the backends it reports as unavailable
validate_configured_runners(reg, s, on_path) ==
    validate_from(1, reg, << >>, configured_types(s), on_path, {})

NotCreated == [status |-> "none", unavailable |-> {}, runner |-> 0]

NotResolved == [agent |-> None, runner |-> 0]

RegistryIdle ==
    /\ settings = DefaultSettings
    /\ installed = {}
    /\ registry = None
    /\ live_runners = << >>
    /\ orchestrator = NotCreated
    /\ resolved = NotResolved

\* RunnerResult.failure
failure(error, exit_code) ==
    [success |-> FALSE, output |-> "", error |-> error, exit_code |-> exit_code]

\* RunnerResult.success_result
success_result(output) ==
    [success |-> TRUE, output |-> output, error |-> None, exit_code |-> 0]

NoResult == [success |-> FALSE, output |-> "", error |-> None, exit_code |-> 0]

NoRunnerCall ==
    [mode |-> None, timeout |-> 0, at |-> "none", wait_from |-> 0, result |-> NoResult]

NoProcess == [eof_at |-> 0, finish_at |-> 0, returncode |-> 0, killed |-> FALSE]

\* no backend call is under way
CallIdle ==
    /\ runner_call = NoRunnerCall
    /\ subprocess = NoProcess
    /\ clock = 0

NotParsed == [parser |-> "none", value |-> None]

NoUsage == [given |-> FALSE, raw |-> << >>]
NotNormalized == [returned |-> "none", usage |-> << >>]

\* nothing was handed to the output normalizer
NormalizerIdle ==
    /\ agent_text = << >>
    /\ structured_output = NotParsed
    /\ raw_usage = NoUsage
    /\ token_usage = NotNormalized

\* the task directory has no implementation-plan directory, nothing selected
NoPlanDir == << >>
NotSelected == [called |-> FALSE, phase_path |-> None]

PlanIdle ==
    /\ plan_dir = NoPlanDir
    /\ selected = NotSelected

\* what signal.signal(SIGINT, ...) can return as the previous handler: a
\* Python callable, SIG_DFL, SIG_IGN, or None for a handler that was not
\* installed from Python
PreviousHandlers == {"default_int_handler", "SIG_DFL", "SIG_IGN", None}

\* the handler a Python process starts with
SignalIdle == previous_handler = "default_int_handler"

\* InterruptHandler.__exit__: the handler saved by __enter__ is put back
\* unless it is None.  TRUE when the handler of the run stays in place.
\* (A run entered while the handler of an earlier run is still in place
\* saves and puts back that one: this happens only below a None handler.)
HandlerStaysInPlace(original_handler) == original_handler = None

\* the orchestrator after construction, before run() or resume() is called
LoopInit ==
    /\ state = ExecutionState(0)
    /\ disk = NoState
    /\ pc = "idle"
    /\ interrupt_count = 0
    /\ handler_installed = FALSE
    /\ stopped_at_phase = None
    /\ stop_reason = None
    /\ outcome = "none"
    /\ runs = 0
    /\ impl_calls = << >>
    /\ resumed_from = NotResumed
    /\ last_call = NoCall
    /\ plan_doc = None

Init ==
    /\ LoopInit
    /\ RegistryIdle
    /\ CallIdle
    /\ NormalizerIdle
    /\ PlanIdle
    /\ SignalIdle

Here == Machine(state, disk)

\* the orchestrator moves on inside run()
Goto(m, newpc) ==
    /\ state' = m.mem
    /\ disk' = m.disk
    /\ pc' = newpc

\* run() returns: InterruptHandler.__exit__ restores the SIGINT handler
Return(m) ==
    /\ Goto(m, "idle")
    /\ outcome' = "returned"
    /\ handler_installed' = HandlerStaysInPlace(previous_handler)
    /\ stopped_at_phase' = None
    /\ stop_reason' = None

\* the body of run(config) up to the first evaluation of the while condition
EnterRun(m, max_iterations, selection) ==
    /\ Goto(create(delete(m), max_iterations), "loop_top")
    /\ interrupt_count' = 0
    /\ handler_installed' = TRUE
    /\ outcome' = "running"
    /\ runs' = runs + 1
    /\ impl_calls' = << >>
    /\ last_call' = NoCall
    /\ plan_doc' = selection
    /\ stopped_at_phase' = None
    /\ stop_reason' = None

\* AgenticLoop.run(config), called by the `run` command
Run(max_iterations, selection) ==
    /\ pc = "idle"
    /\ runs < MaxRuns
    /\ EnterRun(Here, max_iterations, selection)
    /\ resumed_from' = NotResumed
    /\ UNCHANGED component_vars

\* whether the state file of the task is there, whatever it holds
FileExists(d) == IF d.exists THEN TRUE ELSE "unreadable" \in DOMAIN d

\* StateManager.load as its caller sees it: the state, None, or StateError
\* raised for a document that fails validation
LoadOutcome(d) ==
    IF d.exists THEN "state"
    ELSE IF ~FileExists(d) THEN "None"
    ELSE IF d.unreadable = "empty" THEN "None"
    ELSE "StateError"

\* how resume() ends when it does not enter run(): StateError from load
\* propagates, the other cases raise LoopError
ResumeError(d) == IF LoadOutcome(d) = "StateError" THEN "state_error" ELSE "loop_error"

\* mutant: only a completed task is rejected
ResumeRejects_CompletedOnly(d) ==
    IF ~d.exists THEN TRUE ELSE d.doc.current_phase \in {COMPLETED}

\* AgenticLoop.resume(task_id): the two LoopError cases, after StateManager.load
ResumeRejects(d) ==
    IF ~d.exists THEN TRUE ELSE d.doc.current_phase \in {COMPLETED, FAILED}

Resume(selection) ==
    /\ pc = "idle"
    /\ runs < MaxRuns
    /\ IF ResumeRejects(disk) THEN TRUE ELSE disk.doc.max_iterations <= MaxIterations
    /\ IF ResumeRejects(disk)
       THEN /\ outcome' = ResumeError(disk)
            /\ runs' = runs + 1
            /\ resumed_from' = NotResumed
            /\ UNCHANGED << state, disk, pc, interrupt_count, handler_installed,
                            stopped_at_phase, stop_reason, impl_calls, last_call, plan_doc >>
       ELSE /\ EnterRun(Machine(disk.doc, disk), disk.doc.max_iterations, selection)
            /\ resumed_from' = ResumedFrom(disk.doc)
    /\ UNCHANGED component_vars

\* _run_manager up to the backend call, on behalf of _run_manager_on_iteration_stop;
\* without a manager agent the update is skipped and the iteration ends at once
StopIteration(m, phase, reason, manager_exists) ==
    LET m1 == update_phase(m, MANAGER)
        m2 == restore_stopped_phase(complete_phase(m1, MANAGER), phase)
        m3 == IF phase = IMPLEMENTATION THEN fail_phase(m2, IMPLEMENTATION, reason) ELSE m2
    IN  IF manager_exists
        THEN /\ Goto(m1, "stopmgr_call")
             /\ stopped_at_phase' = phase
             /\ stop_reason' = reason
        ELSE /\ Goto(m3, "loop_top")
             /\ stopped_at_phase' = None
             /\ stop_reason' = None

\* the while condition of run(), then _run_iteration up to the Implementation call
\* an exception of the plan updater leaves the while loop for the
\* `except Exception` clause of run()
LoopTop(plan_fails) ==
    /\ pc = "loop_top"
    /\ last_call' = NoCall
    /\ IF should_continue(state)
       THEN LET m1 == Machine(start_iteration(state), disk)
                m2 == prepare_plan_progress(m1, plan_doc)
                m3 == update_phase(m2, IMPLEMENTATION)
            IN  IF SelectionRaises(m1, plan_doc, plan_fails)
                THEN /\ Return(mark_failed(m1, PlanUpdaterError))
                     /\ UNCHANGED << interrupt_count, runs, impl_calls, resumed_from,
                                     plan_doc >>
                ELSE /\ Goto(m3, "impl_call")
                     /\ impl_calls' = Append(impl_calls, ImplementationInput(m3.mem))
                     /\ UNCHANGED << interrupt_count, handler_installed, stopped_at_phase,
                                     stop_reason, outcome, runs, resumed_from, plan_doc >>
       ELSE /\ Return(Here)
            /\ UNCHANGED << interrupt_count, runs, impl_calls, resumed_from, plan_doc >>
    /\ UNCHANGED component_vars

\* _run_implementation after the backend returned, and the failure branch of _run_iteration
ImplReturn(r, manager_exists) ==
    /\ pc = "impl_call"
    /\ last_call' = Received(IMPLEMENTATION, r, None)
    /\ IF r.success
       THEN /\ Goto(complete_phase(Here, IMPLEMENTATION), "after_impl")
            /\ UNCHANGED << stopped_at_phase, stop_reason >>
       ELSE StopIteration(Here, IMPLEMENTATION, PyOr(r.error, "Implementation failed"),
                          manager_exists)
    /\ UNCHANGED << interrupt_count, handler_installed, outcome, runs, impl_calls,
                    resumed_from, plan_doc >>
    /\ UNCHANGED component_vars

\* _run_iteration from the check after Implementation to the TestCritique call
StartTestCritique(agent_exists) ==
    /\ pc = "after_impl"
    /\ LET m1 == update_phase(save(Here), TEST_CRITIQUE)
       IN  IF agent_exists
           THEN Goto(m1, "crit_call")
           ELSE Goto(complete_phase(m1, TEST_CRITIQUE), "after_crit")
    /\ last_call' = NoCall
    /\ UNCHANGED << interrupt_count, handler_installed, stopped_at_phase, stop_reason,
                    outcome, runs, impl_calls, resumed_from, plan_doc >>
    /\ UNCHANGED component_vars

\* mutant: a critique call that failed or has no payload blocks the iteration
CritiquePassed_ErrorBlocks(r) == IF HasPayload(r) THEN FlagGet(r, TRUE) ELSE FALSE

\* TestCritiqueResult.passed as _run_test_critique computes it
CritiquePassed(r) == IF HasPayload(r) THEN FlagGet(r, TRUE) ELSE TRUE

\* _run_test_critique after the backend returned, and the "not passed" branch
CritiqueReturn(r, manager_exists) ==
    /\ pc = "crit_call"
    /\ LET critique_passed == CritiquePassed(r)
           fix_info == IF HasPayload(r) /\ ~critique_passed THEN r.fix_info ELSE None
           failed == save([Here EXCEPT !.mem =
                        record_step(state, TEST_CRITIQUE, STEP_FAILED,
                                    PyOr(fix_info, "Test quality check failed"))])
       IN  IF critique_passed
           THEN /\ Goto(complete_phase(Here, TEST_CRITIQUE), "after_crit")
                /\ UNCHANGED << stopped_at_phase, stop_reason >>
           ELSE StopIteration(store_fix_info(failed, fix_info), TEST_CRITIQUE,
                              PyOr(fix_info, "Test critique failed"), manager_exists)
    /\ last_call' = Received(TEST_CRITIQUE, r,
                             IF HasPayload(r) /\ ~CritiquePassed(r) THEN r.fix_info ELSE None)
    /\ UNCHANGED << interrupt_count, handler_installed, outcome, runs, impl_calls,
                    resumed_from, plan_doc >>
    /\ UNCHANGED component_vars

\* _run_iteration from the check after TestCritique to the Verification call
StartQA ==
    /\ pc = "after_crit"
    /\ Goto(update_phase([Here EXCEPT !.mem =
                SetIterationField(state, "test_critique_passed", TRUE)], QA), "qa_call")
    /\ last_call' = NoCall
    /\ UNCHANGED << interrupt_count, handler_installed, stopped_at_phase, stop_reason,
                    outcome, runs, impl_calls, resumed_from, plan_doc >>
    /\ UNCHANGED component_vars

\* QAResult.fix_info: `fix_info or result.output if not dod_achieved else None`
QAFixInfo(r, dod_achieved) ==
    IF ~r.success THEN r.error
    ELSE IF ~dod_achieved
         THEN PyOr(IF r.so = "dict" THEN r.fix_info ELSE None, r.output)
         ELSE None

\* mutant: a failed Verification call counts as criteria met
QADodAchieved_ErrorPasses(r) ==
    IF r.success /\ r.so = "dict" THEN FlagGet(r, FALSE) ELSE ~r.success

\* QAResult.dod_achieved as _run_qa computes it
QADodAchieved(r) == r.success /\ (IF r.so = "dict" THEN FlagGet(r, FALSE) ELSE FALSE)

\* _run_qa after the backend returned, and the "not achieved" branch
QAReturn(r, manager_exists) ==
    /\ pc = "qa_call"
    /\ last_call' = Received(QA, r, QAFixInfo(r, QADodAchieved(r)))
    /\ LET dod_achieved == QADodAchieved(r)
           fix_info == QAFixInfo(r, dod_achieved)
           m1 == IF r.success THEN complete_phase(Here, QA) ELSE Here
       IN  IF dod_achieved
           THEN /\ Goto(m1, "after_qa")
                /\ UNCHANGED << stopped_at_phase, stop_reason >>
           ELSE StopIteration(store_fix_info(m1, fix_info), QA,
                              PyOr(fix_info, "QA failed"), manager_exists)
    /\ UNCHANGED << interrupt_count, handler_installed, outcome, runs, impl_calls,
                    resumed_from, plan_doc >>
    /\ UNCHANGED component_vars

\* mutant: the flag of the next gate is set in place of Verification's
StartCodeQuality_WrongFlag ==
    /\ pc = "after_qa"
    /\ Goto(update_phase([Here EXCEPT !.mem =
                SetIterationField(state, "quality_passed", TRUE)], CODE_QUALITY), "cq_call")
    /\ last_call' = NoCall
    /\ UNCHANGED << interrupt_count, handler_installed, stopped_at_phase, stop_reason,
                    outcome, runs, impl_calls, resumed_from, plan_doc >>
    /\ UNCHANGED component_vars

\* _run_iteration from the check after Verification to the CodeQuality call
StartCodeQuality ==
    /\ pc = "after_qa"
    /\ Goto(update_phase([Here EXCEPT !.mem =
                SetIterationField(state, "dod_achieved", TRUE)], CODE_QUALITY), "cq_call")
    /\ last_call' = NoCall
    /\ UNCHANGED << interrupt_count, handler_installed, stopped_at_phase, stop_reason,
                    outcome, runs, impl_calls, resumed_from, plan_doc >>
    /\ UNCHANGED component_vars

\* mutant: a CodeQuality call that failed or has no payload blocks the gate
QualityPassed_ErrorBlocks(r) == IF HasPayload(r) THEN FlagGet(r, FALSE) ELSE FALSE

\* CodeQualityResult.passed as _run_code_quality computes it
QualityPassed(r) == IF HasPayload(r) THEN FlagGet(r, FALSE) ELSE TRUE

\* _run_code_quality after the backend returned, and the "not passed" branch
CodeQualityReturn(r, manager_exists) ==
    /\ pc = "cq_call"
    /\ last_call' = Received(CODE_QUALITY, r,
                             IF HasPayload(r) /\ ~QualityPassed(r) THEN r.fix_info ELSE None)
    /\ LET quality_passed == QualityPassed(r)
           fix_info == IF HasPayload(r) /\ ~quality_passed THEN r.fix_info ELSE None
           failed == save([Here EXCEPT !.mem =
                        record_step(state, CODE_QUALITY, STEP_FAILED,
                                    PyOr(fix_info, "Quality check failed"))])
       IN  IF quality_passed
           THEN /\ Goto(complete_phase(Here, CODE_QUALITY), "after_cq")
                /\ UNCHANGED << stopped_at_phase, stop_reason >>
           ELSE StopIteration(store_fix_info(failed, fix_info), CODE_QUALITY,
                              PyOr(fix_info, "Code quality failed"), manager_exists)
    /\ UNCHANGED << interrupt_count, handler_installed, outcome, runs, impl_calls,
                    resumed_from, plan_doc >>
    /\ UNCHANGED component_vars

\* _run_iteration from the check after CodeQuality to the Manager call
StartManager(agent_exists) ==
    /\ pc = "after_cq"
    /\ LET m1 == update_phase([Here EXCEPT !.mem =
                    SetIterationField(state, "quality_passed", TRUE)], MANAGER)
       IN  IF agent_exists
           THEN Goto(m1, "mgr_call")
           ELSE Goto(complete_phase(m1, MANAGER), "after_mgr")
    /\ last_call' = NoCall
    /\ UNCHANGED << interrupt_count, handler_installed, stopped_at_phase, stop_reason,
                    outcome, runs, impl_calls, resumed_from, plan_doc >>
    /\ UNCHANGED component_vars

\* mutant: a failed Manager call fails the phase and ends the iteration
ManagerReturn_FailureStops(r) ==
    /\ pc = "mgr_call"
    /\ last_call' = Received(MANAGER, r, None)
    /\ IF r.success
       THEN Goto(complete_phase(Here, MANAGER), "after_mgr")
       ELSE Goto(fail_phase(Here, MANAGER, PyOr(r.error, "Manager failed")), "loop_top")
    /\ UNCHANGED << interrupt_count, handler_installed, stopped_at_phase, stop_reason,
                    outcome, runs, impl_calls, resumed_from, plan_doc >>
    /\ UNCHANGED component_vars

\* _run_manager after the backend returned (phase 5 of _run_iteration)
ManagerReturn(r) ==
    /\ pc = "mgr_call"
    /\ last_call' = Received(MANAGER, r, None)
    /\ Goto(complete_phase(Here, MANAGER), "after_mgr")
    /\ UNCHANGED << interrupt_count, handler_installed, stopped_at_phase, stop_reason,
                    outcome, runs, impl_calls, resumed_from, plan_doc >>
    /\ UNCHANGED component_vars

\* _run_iteration from the check after Manager to the CompletionCheck call;
\* without a DoD agent _run_dod_check returns False and the iteration is closed
StartDodCheck(agent_exists) ==
    /\ pc = "after_mgr"
    /\ LET m1 == update_phase(Here, DOD_CHECK)
       IN  IF agent_exists
           THEN Goto(m1, "dod_call")
           ELSE Goto(close_iteration(m1), "loop_top")
    /\ last_call' = NoCall
    /\ UNCHANGED << interrupt_count, handler_installed, stopped_at_phase, stop_reason,
                    outcome, runs, impl_calls, resumed_from, plan_doc >>
    /\ UNCHANGED component_vars

\* mutant: a successful call without payload counts as completion
TaskComplete_DefaultsComplete(r) == IF HasPayload(r) THEN PyBool(r.flag) ELSE r.success

\* the value _run_dod_check returns for a backend result
TaskComplete(r) == IF HasPayload(r) THEN PyBool(r.flag) ELSE FALSE

\* _run_dod_check after the backend returned, and the tail of _run_iteration
DodReturn(r, plan_fails) ==
    /\ pc = "dod_call"
    /\ last_call' = Received(DOD_CHECK, r, None)
    /\ LET m1 == IF HasPayload(r) THEN complete_phase(Here, DOD_CHECK) ELSE Here
           m2 == IF TaskComplete(r) THEN mark_completed(m1) ELSE m1
       IN  IF TaskComplete(r) /\ MarkAllCompleteRaises(plan_doc, plan_fails)
           THEN Return(mark_failed(Here, PlanUpdaterError))
           ELSE /\ Goto(close_iteration(m2), "loop_top")
                /\ UNCHANGED << handler_installed, stopped_at_phase, stop_reason, outcome >>
    /\ UNCHANGED << interrupt_count, runs, impl_calls, resumed_from, plan_doc >>
    /\ UNCHANGED component_vars

\* _run_manager_on_iteration_stop after the Manager backend returned, then
\* the rest of the failure branch of _run_iteration
StopManagerReturn(r) ==
    /\ pc = "stopmgr_call"
    /\ last_call' = Received(MANAGER, r, None)
    /\ LET m1 == restore_stopped_phase(complete_phase(Here, MANAGER), stopped_at_phase)
           m2 == IF stopped_at_phase = IMPLEMENTATION
                 THEN fail_phase(m1, IMPLEMENTATION, stop_reason)
                 ELSE m1
       IN  Goto(m2, "loop_top")
    /\ stopped_at_phase' = None
    /\ stop_reason' = None
    /\ UNCHANGED << interrupt_count, handler_installed, outcome, runs, impl_calls,
                    resumed_from, plan_doc >>
    /\ UNCHANGED component_vars

----------------------------------------------------------------------------
(* Interrupts.  SIGINT is delivered to the main thread wherever it is:      *)
(* InterruptHandler._signal_handler counts it and raises KeyboardInterrupt  *)
(* there (first signal) or calls sys.exit(1) (second signal).  A runner     *)
(* that is waiting for its subprocess terminates it and re-raises           *)
(* (runners/claude.py:187-193), so the call's result is never processed.    *)

InRun == pc # "idle"

\* mutant: the first signal already exits the process
SignalEffect_ExitAtOnce(n) == "SystemExit"

\* mutant: no signal ever exits the process
SignalEffect_NeverExits(n) == "KeyboardInterrupt"

\* what _signal_handler does with the n-th signal of a run
SignalEffect(n) == IF n = 1 THEN "KeyboardInterrupt" ELSE "SystemExit"

\* the KeyboardInterrupt on its way out of _run_iteration: only the `finally`
\* of _run_manager_on_iteration_stop runs
Unwind(m) ==
    IF pc = "stopmgr_call" THEN restore_stopped_phase(m, stopped_at_phase) ELSE m

\* `except KeyboardInterrupt` of run(): _handle_interrupt up to the Manager call,
\* or to the end when no Manager update is due or no manager agent exists
HandleInterrupt(m, count, manager_exists) ==
    IF should_run_manager_on_interrupt(m.mem) /\ ~(count >= 2)
    THEN LET m1 == update_phase(m, MANAGER)
         IN  IF manager_exists
             THEN /\ Goto(m1, "intmgr_call")
                  /\ UNCHANGED << outcome, handler_installed >>
                  /\ stopped_at_phase' = None
                  /\ stop_reason' = None
             ELSE Return(mark_stopped(complete_phase(m1, MANAGER), REASON))
    ELSE Return(mark_stopped(m, REASON))

\* SIGINT while the handler of run() is installed
Signal(manager_exists) ==
    /\ InRun
    /\ handler_installed
    /\ interrupt_count' = interrupt_count + 1
    /\ IF SignalEffect(interrupt_count + 1) = "KeyboardInterrupt"
       THEN IF pc = "intmgr_call"
            THEN \* caught inside _handle_interrupt: "Manager update skipped by user"
                 Return(mark_stopped(Here, REASON))
            ELSE HandleInterrupt(Unwind(Here), interrupt_count + 1, manager_exists)
       ELSE \* sys.exit(1): SystemExit passes every handler of run()
            /\ Goto(Unwind(Here), "idle")
            /\ outcome' = "exited"
            /\ handler_installed' = HandlerStaysInPlace(previous_handler)
            /\ stopped_at_phase' = None
            /\ stop_reason' = None
    /\ UNCHANGED << runs, impl_calls, resumed_from, last_call, plan_doc >>
    /\ UNCHANGED component_vars

\* _handle_interrupt after its Manager call (timeout 10) returned
InterruptManagerReturn(r) ==
    /\ pc = "intmgr_call"
    /\ last_call' = Received(MANAGER, r, None)
    /\ Return(mark_stopped(complete_phase(Here, MANAGER), REASON))
    /\ UNCHANGED << interrupt_count, runs, impl_calls, resumed_from, plan_doc >>
    /\ UNCHANGED component_vars

\* the pipeline positions whose backend call is followed by complete_phase
PipelineCalls == {"impl_call", "crit_call", "qa_call", "cq_call", "mgr_call", "dod_call"}

PhaseOfCall(callpc) ==
    CASE callpc = "impl_call" -> IMPLEMENTATION
      [] callpc = "crit_call" -> TEST_CRITIQUE
      [] callpc = "qa_call" -> QA
      [] callpc = "cq_call" -> CODE_QUALITY
      [] callpc = "mgr_call" -> MANAGER
      [] callpc = "dod_call" -> DOD_CHECK

\* the number of top-level entries of the state document
DocumentEntries == Len(serialize_state(ExecutionState(0)))

\* The process dies (kill, power loss) while complete_phase, called on the
\* successful return of a backend call, is inside StateManager.save: k
\* entries of the new document are in the file.  Nothing in memory survives.
Crash(k) ==
    /\ pc \in PipelineCalls
    /\ LET post == record_step(state, PhaseOfCall(pc), STEP_COMPLETED, None)
       IN  disk' = torn_save(Machine(post, disk), k).disk
    /\ state' = ExecutionState(0)
    /\ pc' = "idle"
    /\ outcome' = "crashed"
    /\ interrupt_count' = 0
    /\ handler_installed' = FALSE
    /\ stopped_at_phase' = None
    /\ stop_reason' = None
    /\ impl_calls' = << >>
    /\ last_call' = NoCall
    /\ resumed_from' = NotResumed
    /\ plan_doc' = None
    /\ UNCHANGED runs
    /\ UNCHANGED component_vars

----------------------------------------------------------------------------

Next ==
    \/ \E n \in 0..MaxIterations, d \in PlanSelections : Run(n, d)
    \/ \E d \in PlanSelections : Resume(d)
    \/ \E f \in BOOLEAN : LoopTop(f)
    \/ \E r \in ImplResults, e \in BOOLEAN : ImplReturn(r, e)
    \/ \E e \in BOOLEAN : StartTestCritique(e)
    \/ \E r \in GateResults, e \in BOOLEAN : CritiqueReturn(r, e)
    \/ StartQA
    \/ \E r \in GateResults, e \in BOOLEAN : QAReturn(r, e)
    \/ StartCodeQuality
    \/ \E r \in GateResults, e \in BOOLEAN : CodeQualityReturn(r, e)
    \/ \E e \in BOOLEAN : StartManager(e)
    \/ \E r \in ManagerResults : ManagerReturn(r)
    \/ \E e \in BOOLEAN : StartDodCheck(e)
    \/ \E r \in DodResults, f \in BOOLEAN : DodReturn(r, f)
    \/ \E r \in ManagerResults : StopManagerReturn(r)
    \/ \E e \in BOOLEAN : Signal(e)
    \/ \E r \in ManagerResults : InterruptManagerReturn(r)
    \/ \E k \in 0..(DocumentEntries - 1) : Crash(k)

Spec == Init /\ [][Next]_vars

----------------------------------------------------------------------------
(* Properties *)

HasStep(rec, phase, status) ==
    \E k \in 1..Len(rec.steps) : rec.steps[k].phase = phase /\ rec.steps[k].status = status

CountSteps(rec, phase, status) ==
    Cardinality({k \in 1..Len(rec.steps) :
                    rec.steps[k].phase = phase /\ rec.steps[k].status = status})

Affirmative(res) ==
    /\ res.phase = DOD_CHECK
    /\ res.success
    /\ res.so = "dict"
    /\ res.flag \in {"true", "1"}

\* C1: the current phase turns Completed only in the step that receives a
\* CompletionCheck result which succeeded and carries a payload whose
\* task_complete flag is affirmative; a missing DoD agent, a failed call or a
\* result without payload never marks the run Completed.
C1_CompletedOnlyOnAffirmativeDod ==
    [][ (state'.current_phase = COMPLETED /\ state.current_phase # COMPLETED)
          => (pc = "dod_call" /\ Affirmative(last_call')) ]_vars

C1_Witness ==
    /\ state.current_phase = COMPLETED
    /\ pc = "loop_top"
    /\ Affirmative(last_call)

\* C2: in every iteration record, every CompletionCheck step is preceded by
\* completed steps of Implementation, TestCritique, Verification and
\* CodeQuality, in this order.
GatesCompletedBefore(rec, k) ==
    \E a \in 1..(k - 1) :
        /\ rec.steps[a] = StepRecord(IMPLEMENTATION, STEP_COMPLETED, None)
        /\ \E b \in (a + 1)..(k - 1) :
            /\ rec.steps[b] = StepRecord(TEST_CRITIQUE, STEP_COMPLETED, None)
            /\ \E c \in (b + 1)..(k - 1) :
                /\ rec.steps[c] = StepRecord(QA, STEP_COMPLETED, None)
                /\ \E d \in (c + 1)..(k - 1) :
                    rec.steps[d] = StepRecord(CODE_QUALITY, STEP_COMPLETED, None)

C2_GateOrdering ==
    \A i \in 1..Len(state.iterations) :
        \A k \in 1..Len(state.iterations[i].steps) :
            state.iterations[i].steps[k].phase = DOD_CHECK
                => GatesCompletedBefore(state.iterations[i], k)

C2_Witness ==
    /\ pc = "dod_call"
    /\ HasStep(current_iteration_record(state), DOD_CHECK, IN_PROGRESS)


\* a backend failure: error result (timeouts included) or no usable payload
BackendFailed(res) == ~res.success \/ res.so \in {"none", "empty"}

\* the step receives the result of the call that was in flight at `callpc`
Receives(callpc, phase) == pc = callpc /\ last_call'.phase = phase

\* the iteration does not go past the gate: it ends and the loop decides on a retry
EndsIteration == pc' \in {"loop_top", "stopmgr_call"}

\* C3 as stated: a backend failure of Verification, CodeQuality or
\* CompletionCheck never lets the iteration go past that gate.
C3_Original ==
    [][ /\ (Receives("qa_call", QA) /\ BackendFailed(last_call'))
            => (pc' # "after_qa" /\ EndsIteration)
        /\ (Receives("cq_call", CODE_QUALITY) /\ BackendFailed(last_call'))
            => (pc' # "after_cq" /\ EndsIteration)
        /\ (Receives("dod_call", DOD_CHECK) /\ BackendFailed(last_call'))
            => (state'.current_phase # COMPLETED /\ EndsIteration) ]_vars

\* C3 amended: a backend failure of Verification or CompletionCheck never
\* lets the iteration go past that gate (Verification ends the iteration with
\* dod_achieved unset, CompletionCheck leaves the run not Completed), while a
\* backend failure of CodeQuality is passed through: the iteration goes on to
\* Manager with the CodeQuality step recorded as completed.
C3_GatingFailures ==
    [][ /\ (Receives("qa_call", QA) /\ BackendFailed(last_call'))
            => /\ pc' # "after_qa" /\ EndsIteration
               /\ ~current_iteration_record(state').dod_achieved
        /\ (Receives("dod_call", DOD_CHECK) /\ BackendFailed(last_call'))
            => (state'.current_phase # COMPLETED /\ EndsIteration)
        /\ (Receives("cq_call", CODE_QUALITY) /\ BackendFailed(last_call'))
            => /\ pc' = "after_cq"
               /\ HasStep(current_iteration_record(state'), CODE_QUALITY, STEP_COMPLETED) ]_vars

C3_Witness ==
    /\ pc = "after_cq"
    /\ last_call.phase = CODE_QUALITY
    /\ BackendFailed(last_call)


Gates == {TEST_CRITIQUE, QA, CODE_QUALITY}

\* the gate whose result was received last rejected the iteration
GateJustFailed ==
    /\ last_call.phase \in Gates
    /\ pc \in {"loop_top", "stopmgr_call"}

\* iteration i of this run ended at a failed gate
EndedAtGate(i) ==
    /\ HasStep(state.iterations[i], IMPLEMENTATION, STEP_COMPLETED)
    /\ ~state.iterations[i].quality_passed

\* C4: when TestCritique, Verification or CodeQuality fails with fix info F,
\* F is stored on the iteration's record and in the context, and the
\* Implementation invocation of the next iteration receives F.
C4_FixInfoPropagation ==
    /\ GateJustFailed =>
          /\ current_iteration_record(state).fix_info = last_call.fix_info
          /\ "fix_info" \in DOMAIN state.context
          /\ state.context["fix_info"] = last_call.fix_info
    /\ \A i \in 1..Len(state.iterations) :
          (i + 1 <= Len(impl_calls) /\ EndedAtGate(i))
              => impl_calls[i + 1].fix_info = state.iterations[i].fix_info

C4_Witness ==
    /\ Len(impl_calls) = 2
    /\ pc = "impl_call"
    /\ state.iterations[1].fix_info = "F1"
    /\ HasStep(state.iterations[1], CODE_QUALITY, STEP_FAILED)
    /\ impl_calls[2].fix_info = "F1"

\* every iteration of the run so far reached Verification and was rejected there
VerificationAlwaysFails ==
    \A i \in 1..Len(state.iterations) :
        /\ HasStep(state.iterations[i], QA, IN_PROGRESS)
        /\ ~state.iterations[i].dod_achieved

\* C5: the iteration counter never exceeds max_iterations; a run with
\* max_iterations N >= 1 in which Verification fails in every iteration
\* (and no interrupt arrives) returns after exactly N iterations and N
\* Implementation invocations, in a phase that is not terminal.
C5_IterationCeiling ==
    /\ state.current_iteration <= state.max_iterations
    /\ (/\ outcome = "returned"
        /\ interrupt_count = 0
        /\ state.max_iterations >= 1
        /\ VerificationAlwaysFails)
          => /\ state.current_iteration = state.max_iterations
             /\ Len(state.iterations) = state.max_iterations
             /\ Len(impl_calls) = state.max_iterations
             /\ state.current_phase \notin {COMPLETED, FAILED, STOPPED}

C5_Witness ==
    /\ outcome = "returned"
    /\ interrupt_count = 0
    /\ VerificationAlwaysFails
    /\ state.max_iterations = MaxIterations
    /\ state.current_iteration = MaxIterations
    /\ state.current_phase = QA


\* the positions at which a backend call is in flight
CallPcs == {"impl_call", "crit_call", "qa_call", "cq_call", "mgr_call", "dod_call",
            "stopmgr_call"}

StoppedPersisted ==
    /\ disk.exists
    /\ disk.doc.current_phase = STOPPED
    /\ disk.doc.error_message = REASON
    /\ state.current_phase = STOPPED

\* C6: a run that received one interrupt has returned, when it is over, with
\* the current phase Stopped and the stop reason recorded in the persisted
\* Execution State.
C6_InterruptStops ==
    (interrupt_count = 1 /\ pc = "idle") => (outcome = "returned" /\ StoppedPersisted)

C6_Witness ==
    /\ interrupt_count = 1
    /\ pc = "idle"
    /\ StoppedPersisted
    /\ Len(state.iterations) >= 1
    /\ HasStep(current_iteration_record(state), QA, IN_PROGRESS)
    /\ ~HasStep(current_iteration_record(state), QA, STEP_COMPLETED)

\* C7: a first interrupt is only recorded; a backend call that is in flight
\* when it arrives stays in flight (it is allowed to return) and no phase is
\* aborted mid-call.
C7_FirstInterruptOnlyRecorded ==
    [][ (interrupt_count = 0 /\ interrupt_count' = 1 /\ pc \in CallPcs) => pc' = pc ]_vars

\* C8: after a resume, the first Implementation invocation receives the
\* context persisted before the resume; stated for the entry the claim
\* singles out, the fix-info of the last failed gate.
C8_ResumeCarriesContext ==
    (resumed_from.resumed /\ Len(impl_calls) >= 1) =>
        impl_calls[1].fix_info = DictGet(resumed_from.context, "fix_info")

\* a step that is a resume() call
ResumeStep ==
    /\ pc = "idle"
    /\ runs' = runs + 1
    /\ (outcome' \in {"loop_error", "state_error"} \/ resumed_from'.resumed)

PersistedPhaseIn(phases) == disk.exists /\ disk.doc.current_phase \in phases

Rejected ==
    /\ outcome' = "loop_error"
    /\ UNCHANGED << state, disk, pc, impl_calls, last_call >>

\* C9 as stated: resume is rejected, without any effect, whenever the
\* persisted phase is Completed, Failed or Stopped.
C9_Original ==
    [][ (ResumeStep /\ PersistedPhaseIn({COMPLETED, FAILED, STOPPED})) => Rejected ]_vars

\* C9 amended: resume raises an error, invokes no phase and leaves the
\* persisted state unchanged whenever the persisted phase is Completed or
\* Failed; a Stopped task is accepted and run again.
C9_ResumeRejectsFinished ==
    [][ /\ (ResumeStep /\ PersistedPhaseIn({COMPLETED, FAILED})) => Rejected
        /\ (ResumeStep /\ PersistedPhaseIn({STOPPED}))
              => (outcome' = "running" /\ pc' = "loop_top") ]_vars

C9_Witness ==
    /\ outcome = "loop_error"
    /\ PersistedPhaseIn({FAILED})
    /\ runs = 2

DefaultedError(e) == IF e = None THEN "Implementation failed" ELSE e

FailedWith(s, d, error) ==
    /\ s.current_phase = FAILED
    /\ s.error_message = error
    /\ d.exists /\ d.doc = s
    /\ CountSteps(current_iteration_record(s), MANAGER, IN_PROGRESS) = 1
    /\ s.iterations[Len(s.iterations)].steps[Len(s.iterations[Len(s.iterations)].steps)]
          = StepRecord(IMPLEMENTATION, STEP_FAILED, error)

\* C10: when the Implementation call fails, one Manager update is started
\* for the iteration; whatever that update returns, the phase then becomes
\* Failed with the failure's error message, persisted; and once the phase is
\* Failed no backend is invoked and no iteration is opened.
C10_ImplementationFailure ==
    [][ /\ (Receives("impl_call", IMPLEMENTATION) /\ ~last_call'.success)
            => \/ /\ pc' = "stopmgr_call"
                  /\ stop_reason' = DefaultedError(last_call'.error)
                  /\ CountSteps(current_iteration_record(state'), MANAGER, IN_PROGRESS) = 1
               \/ /\ pc' = "loop_top"
                  /\ FailedWith(state', disk', DefaultedError(last_call'.error))
        /\ (pc = "stopmgr_call" /\ stopped_at_phase = IMPLEMENTATION /\ last_call'.phase = MANAGER)
            => (pc' = "loop_top" /\ FailedWith(state', disk', stop_reason))
        /\ (state.current_phase = FAILED /\ InRun)
            => /\ pc' = "idle"
               /\ impl_calls' = impl_calls
               /\ state'.iterations = state.iterations ]_vars

C10_Witness ==
    /\ pc = "loop_top"
    /\ FailedWith(state, disk, "E1")
    /\ last_call.phase = MANAGER
    /\ ~last_call.success


\* iteration record `rec` went through Implementation and TestCritique and was
\* rejected by Verification with non-empty fix info
QARejectedWithFixInfo(rec) ==
    /\ HasStep(rec, IMPLEMENTATION, STEP_COMPLETED)
    /\ rec.test_critique_passed
    /\ HasStep(rec, QA, IN_PROGRESS)
    /\ ~rec.dod_achieved
    /\ ~Falsy(rec.fix_info)

\* the first Len-1 iterations were rejected by Verification, the last one was
\* accepted by Verification and by CodeQuality
RejectedThenAccepted(s) ==
    /\ Len(s.iterations) >= 1
    /\ \A i \in 1..(Len(s.iterations) - 1) : QARejectedWithFixInfo(s.iterations[i])
    /\ current_iteration_record(s).dod_achieved
    /\ current_iteration_record(s).quality_passed

AllRejected(s) ==
    \A i \in 1..Len(s.iterations) : QARejectedWithFixInfo(s.iterations[i])

FixInfoRecords(s) ==
    Cardinality({i \in 1..Len(s.iterations) : ~Falsy(s.iterations[i].fix_info)})

\* the run was ended by an exception of the plan progress updater (C26)
PlanUpdaterFailed(s) == s.current_phase = FAILED /\ s.error_message = PlanUpdaterError

\* C11: in a run without interrupt where Verification rejects the first k
\* iterations (k < max_iterations) with non-empty fix info and accepts the
\* next one, and the other phases succeed: after each rejection the loop
\* opens the next iteration; the affirmative CompletionCheck of iteration k+1
\* makes the run Completed with current_iteration = k+1 and exactly k records
\* carrying fix info; and the run then returns in that state.
C11_RejectThenAccept ==
    [][ /\ (/\ pc = "loop_top" /\ interrupt_count' = 0
            /\ ~PlanUpdaterFailed(state')
            /\ AllRejected(state)
            /\ Len(state.iterations) < state.max_iterations)
            => /\ pc' = "impl_call"
               /\ state'.current_iteration = Len(state.iterations) + 1
               /\ Len(state'.iterations) = Len(state.iterations) + 1
        /\ (/\ Receives("dod_call", DOD_CHECK) /\ Affirmative(last_call')
            /\ interrupt_count' = 0
            /\ ~PlanUpdaterFailed(state')
            /\ RejectedThenAccepted(state))
            => /\ state'.current_phase = COMPLETED
               /\ state'.current_iteration = Len(state.iterations)
               /\ Len(state'.iterations) = Len(state.iterations)
               /\ FixInfoRecords(state') = Len(state.iterations) - 1
               /\ disk'.exists /\ disk'.doc = state'
        /\ (state.current_phase = COMPLETED /\ InRun /\ interrupt_count' = 0)
            => /\ pc' = "idle" /\ outcome' = "returned"
               /\ state' = state /\ disk' = disk ]_vars

C11_Witness ==
    /\ pc = "idle" /\ outcome = "returned" /\ interrupt_count = 0
    /\ state.current_phase = COMPLETED
    /\ state.current_iteration = 2
    /\ QARejectedWithFixInfo(state.iterations[1])
    /\ RejectedThenAccepted(state)
    /\ FixInfoRecords(state) = 1


\* C12: current_iteration equals the number of iteration records, the first
\* record is numbered 1 and every later record one more than the record
\* before it; this holds in every state, the final state of a run included.
C12_MonotonicIteration ==
    /\ state.current_iteration = Len(state.iterations)
    /\ Len(state.iterations) >= 1 => state.iterations[1].iteration = 1
    /\ \A i \in 2..Len(state.iterations) :
          state.iterations[i].iteration = state.iterations[i - 1].iteration + 1

C12_Witness ==
    /\ pc = "idle" /\ outcome = "returned"
    /\ state.current_iteration = 2
    /\ Len(state.iterations) = 2
    /\ state.iterations[2].iteration = 2


\* a backend call is in flight
BackendCallInFlight == pc \in CallPcs \cup {"intmgr_call"}

\* C13: whenever a backend call is in flight, and when run() has returned,
\* the persisted Execution State equals the in-memory state (phase,
\* iteration counter, iteration flags, step records, context).
C13_PersistedBeforeCall ==
    (BackendCallInFlight \/ (pc = "idle" /\ outcome = "returned"))
        => (disk.exists /\ disk.doc = state)

C13_Witness ==
    /\ pc = "cq_call"
    /\ current_iteration_record(state).dod_achieved
    /\ current_iteration_record(state).test_critique_passed
    /\ DictGet(state.context, "fix_info") = "F1"
    /\ disk.exists /\ disk.doc = state


\* C14: when the process dies in the middle of a save, a reader of the
\* persisted state finds the complete document of before the phase
\* transition or the complete document of after it, never an empty,
\* truncated or mixed one.
C14_CrashLeavesWholeDocument ==
    [][ (pc \in PipelineCalls /\ outcome' = "crashed")
          => disk' \in {disk, complete_phase(Here, PhaseOfCall(pc)).disk} ]_vars


\* the critique was passed through: its step is completed, nothing was stored
\* as fix info, and the iteration stands right before Verification
CritiquePassedThrough ==
    /\ pc' = "after_crit"
    /\ HasStep(current_iteration_record(state'), TEST_CRITIQUE, STEP_COMPLETED)
    /\ ~HasStep(current_iteration_record(state'), TEST_CRITIQUE, STEP_FAILED)
    /\ current_iteration_record(state').fix_info = None
    /\ state'.context = state.context
    /\ Len(state'.iterations) = Len(state.iterations)

\* C15: when the TestCritique agent is missing, or its backend call fails
\* (error result or no usable payload), the critique counts as passed: no fix
\* info is stored, the iteration is not ended, and the next step of the
\* orchestrator is the Verification call.
C15_CritiquePassThrough ==
    [][ /\ (pc = "after_impl" /\ pc' # "crit_call" /\ interrupt_count' = interrupt_count)
            => CritiquePassedThrough
        /\ (Receives("crit_call", TEST_CRITIQUE) /\ BackendFailed(last_call'))
            => CritiquePassedThrough
        /\ (pc = "after_crit" /\ interrupt_count' = interrupt_count)
            => /\ pc' = "qa_call"
               /\ state'.current_phase = QA
               /\ current_iteration_record(state').test_critique_passed ]_vars

C15_Witness ==
    /\ pc = "after_crit"
    /\ last_call.phase = TEST_CRITIQUE
    /\ ~last_call.success
    /\ HasStep(current_iteration_record(state), TEST_CRITIQUE, STEP_COMPLETED)


\* C16: whatever the Manager call after a passed CodeQuality gate returns,
\* success or failure, the state it leaves is the same (phase, iteration
\* count, error message and context unchanged, one completed Manager step
\* added), and the next step of the orchestrator invokes CompletionCheck in
\* the same iteration.
C16_ManagerNeverGates ==
    [][ /\ Receives("mgr_call", MANAGER)
            => /\ pc' = "after_mgr"
               /\ state'.current_phase = MANAGER
               /\ state'.current_iteration = state.current_iteration
               /\ state'.error_message = state.error_message
               /\ state'.context = state.context
               /\ Len(state'.iterations) = Len(state.iterations)
               /\ current_iteration_record(state').steps
                    = Append(current_iteration_record(state).steps,
                             StepRecord(MANAGER, STEP_COMPLETED, None))
        /\ (pc = "after_mgr" /\ interrupt_count' = interrupt_count)
            => /\ state'.current_phase = DOD_CHECK
               /\ Len(state'.iterations) = Len(state.iterations)
               /\ HasStep(current_iteration_record(state'), DOD_CHECK, IN_PROGRESS)
               /\ pc' \in {"dod_call", "loop_top"} ]_vars

C16_Witness ==
    /\ pc = "after_mgr"
    /\ last_call.phase = MANAGER
    /\ ~last_call.success
    /\ HasStep(current_iteration_record(state), MANAGER, STEP_COMPLETED)
    /\ current_iteration_record(state).quality_passed


\* the step delivers the first interrupt of the run
FirstInterrupt == interrupt_count = 0 /\ interrupt_count' = 1

ManagerAttempts(s) ==
    IF s.iterations = << >> THEN 0
    ELSE CountSteps(current_iteration_record(s), MANAGER, IN_PROGRESS)

\* the interrupt is answered by a Manager update of the current iteration
ManagerUpdateAttempted ==
    /\ ManagerAttempts(state') = ManagerAttempts(state) + 1
    /\ Len(state'.iterations) = Len(state.iterations)
    /\ pc' \in {"intmgr_call", "idle"}

\* the interrupt stops the run without a Manager update
StoppedWithoutManagerUpdate ==
    /\ ManagerAttempts(state') = ManagerAttempts(state)
    /\ pc' = "idle"
    /\ state'.current_phase = STOPPED

\* the positions the claim calls "during Manager or CompletionCheck", given
\* the set of positions at which a Manager call is in flight
NoUpdatePositions(manager_calls) == manager_calls \cup {"dod_call"}

InterruptManagerRule(manager_calls) ==
    /\ (FirstInterrupt /\ pc \in {"impl_call", "crit_call", "qa_call", "cq_call"})
        => ManagerUpdateAttempted
    /\ (FirstInterrupt /\ pc = "loop_top" /\ state.current_iteration = 0)
        => StoppedWithoutManagerUpdate
    /\ (FirstInterrupt /\ pc \in NoUpdatePositions(manager_calls))
        => StoppedWithoutManagerUpdate

\* C17: a first interrupt during Implementation, TestCritique, Verification
\* or CodeQuality is answered by one Manager update of the current iteration
\* (a Manager step is recorded before the run stops); a first interrupt
\* before the first iteration, or during a Manager call or CompletionCheck,
\* stops the run without a Manager update.
C17_ManagerOnInterrupt == [][InterruptManagerRule({"mgr_call", "stopmgr_call"})]_vars

\* the same rule for the Manager call of phase 5 only: it holds, so the
\* Manager update that follows a failed gate is the only exception
C17_ExceptStopUpdate == [][InterruptManagerRule({"mgr_call"})]_vars


RunEntered == pc = "idle" /\ pc' = "loop_top"

\* C19: run() discards whatever was persisted for the task: it starts from a
\* newly persisted state with phase Idle, iteration 0, no iteration records
\* and an empty context, and its first Implementation invocation gets no
\* fix info from an earlier run.
C19_RunStartsFresh ==
    [][ /\ RunEntered
            => /\ state'.current_phase = IDLE
               /\ state'.current_iteration = 0
               /\ state'.iterations = << >>
               /\ state'.context = EmptyDict
               /\ state'.error_message = None
               /\ ~state'.completed_at
               /\ disk'.exists /\ disk'.doc = state'
        /\ (pc = "loop_top" /\ pc' = "impl_call" /\ Len(impl_calls) = 0)
            => /\ impl_calls'[1].iteration = 1
               /\ impl_calls'[1].fix_info = None ]_vars

C19_Witness ==
    /\ runs = 2
    /\ ~resumed_from.resumed
    /\ pc = "impl_call"
    /\ Len(impl_calls) = 1
    /\ state.current_iteration = 1
    /\ DictGet(state.context, "fix_info") = None


\* The first run()/resume() call made on a task.  run() builds its state
\* anew on every call (C19), so one call already builds every Execution State
\* the orchestrator can hold.
FirstCallNext ==
    \/ \E n \in 0..MaxIterations, d \in PlanSelections : runs = 0 /\ Run(n, d)
    \/ \E d \in PlanSelections : runs = 0 /\ Resume(d)
    \/ \E f \in BOOLEAN : LoopTop(f)
    \/ \E r \in ImplResults, e \in BOOLEAN : ImplReturn(r, e)
    \/ \E e \in BOOLEAN : StartTestCritique(e)
    \/ \E r \in GateResults, e \in BOOLEAN : CritiqueReturn(r, e)
    \/ StartQA
    \/ \E r \in GateResults, e \in BOOLEAN : QAReturn(r, e)
    \/ StartCodeQuality
    \/ \E r \in GateResults, e \in BOOLEAN : CodeQualityReturn(r, e)
    \/ \E e \in BOOLEAN : StartManager(e)
    \/ \E r \in ManagerResults : ManagerReturn(r)
    \/ \E e \in BOOLEAN : StartDodCheck(e)
    \/ \E r \in DodResults, f \in BOOLEAN : DodReturn(r, f)
    \/ \E r \in ManagerResults : StopManagerReturn(r)
    \/ \E e \in BOOLEAN : Signal(e)
    \/ \E r \in ManagerResults : InterruptManagerReturn(r)
    \/ \E k \in 0..(DocumentEntries - 1) : Crash(k)

SpecFirstCall == Init /\ [][FirstCallNext]_vars

\* what a state store, also a new one after a restart, loads from the file
\* that save() wrote for the current state
Reloaded == load(serialize_state(state))

C21_LoadDistinguishesInvalid ==
    [][ ResumeStep =>
          /\ (LoadOutcome(disk) = "None") => ~FileExists(disk)
          /\ (FileExists(disk) /\ ~disk.exists) => outcome' = "state_error" ]_vars


OpenRecords(s) == {i \in 1..Len(s.iterations) : ~s.iterations[i].completed_at}

\* C30: at most one iteration record is open: a record is closed (completion
\* time set) before the next iteration's record is opened, and every record
\* is closed when the run returns without an interrupt.
C30_OneOpenRecord ==
    /\ OpenRecords(state) \subseteq {Len(state.iterations)}
    /\ (pc = "idle" /\ outcome = "returned" /\ interrupt_count = 0)
          => OpenRecords(state) = {}


\* C26: no failure inside the plan progress updater alters the Execution
\* State or the orchestrator's decisions: the loop opens the iteration it
\* would open and an affirmative completion check completes the task, as in
\* a run where the updater never fails, and no run is failed with the
\* updater's error.
C26_PlanUpdaterNeverAlters ==
    [][ /\ (pc = "loop_top" /\ should_continue(state) /\ interrupt_count' = interrupt_count)
            => pc' = "impl_call"
        /\ (Receives("dod_call", DOD_CHECK) /\ Affirmative(last_call')
            /\ interrupt_count' = interrupt_count)
            => state'.current_phase = COMPLETED
        /\ ~PlanUpdaterFailed(state') ]_vars


----------------------------------------------------------------------------
(* Construction of the orchestrator and resolution of runners *)

\* create_orchestrator: the registry is built and validated, then the
\* default runner is constructed; typer.Exit(1) ends the process otherwise
CreateOrchestrator ==
    /\ orchestrator.status = "none"
    /\ LET v == validate_configured_runners(create_runner_registry(settings),
                                            settings, installed)
       IN  IF v.unavailable # {}
           THEN /\ registry' = None
                /\ live_runners' = v.live
                /\ orchestrator' = [status |-> "exit", unavailable |-> v.unavailable,
                                    runner |-> 0]
           ELSE /\ registry' = v.registry
                /\ live_runners' = Append(v.live, settings.runner)
                /\ orchestrator' = [status |-> "created", unavailable |-> {},
                                    runner |-> Len(v.live) + 1]
    /\ UNCHANGED << settings, installed, resolved >>
    /\ UNCHANGED << orchestrator_vars, call_vars, normalizer_vars, plan_vars, previous_handler >>

\* AgenticLoop._get_runner_for_agent with a registry
GetRunnerForAgent(agent) ==
    /\ orchestrator.status = "created"
    /\ LET got == get_runner_for_agent(registry, live_runners, agent)
       IN  /\ registry' = got.registry
           /\ live_runners' = got.live
           /\ resolved' = [agent |-> agent, runner |-> got.runner]
    /\ UNCHANGED << settings, installed, orchestrator >>
    /\ UNCHANGED << orchestrator_vars, call_vars, normalizer_vars, plan_vars, previous_handler >>

RegistryInit ==
    /\ LoopInit
    /\ CallIdle
    /\ NormalizerIdle
    /\ PlanIdle
    /\ SignalIdle
    /\ settings \in SettingsSet
    /\ installed \in SUBSET (RunnerTypes \ {"mock"})
    /\ registry = None
    /\ live_runners = << >>
    /\ orchestrator = NotCreated
    /\ resolved = NotResolved

RegistryNext ==
    \/ CreateOrchestrator
    \/ \E a \in AgentNames : GetRunnerForAgent(a)

SpecRegistry == RegistryInit /\ [][RegistryNext]_vars

\* the backend types some phase is assigned to
AssignedTypes(s) == {AgentRunnerType(create_runner_registry(s), a) : a \in AgentNames}

UnavailableAssigned == {t \in AssignedTypes(settings) : ~is_available(t, installed)}

\* C22: construction fails if and only if a backend type some phase is
\* assigned to is unavailable, and the failure lists every such backend.
C22_FailsIffAssignedUnavailable ==
    (orchestrator.status # "none") =>
        /\ (orchestrator.status = "exit") <=> (UnavailableAssigned # {})
        /\ (orchestrator.status = "exit") => (orchestrator.unavailable = UnavailableAssigned)


\* the backend an agent is to use: its explicit setting, else the default
ExpectedType(s, agent) ==
    IF agent \in MappedAgents
    THEN IF s.agents[agent] # Unset THEN s.agents[agent] ELSE s.default_runner
    ELSE s.default_runner

\* C23: every agent name resolves to the backend explicitly configured for
\* it, else to the process-wide default, and an override set for one agent
\* does not change the backend resolved for any other agent.
C23_ExplicitElseDefault ==
    /\ (resolved.agent # None)
          => live_runners[resolved.runner] = ExpectedType(settings, resolved.agent)
    /\ \A a \in AgentNames : \A b \in MappedAgents \ {a}, t \in RunnerTypes :
          AgentRunnerType(create_runner_registry([settings EXCEPT !.agents[b] = t]), a)
             = AgentRunnerType(create_runner_registry(settings), a)

C23_Witness ==
    /\ settings.default_runner = "claude"
    /\ settings.agents["execution-qa"] = "codex"
    /\ settings.agents["execution-dod"] = Unset
    /\ resolved.agent = "execution-qa"
    /\ live_runners[resolved.runner] = "codex"
    /\ AgentRunnerType(registry, "execution-dod") = "claude"

\* C24 as stated: at most one live runner instance exists per backend type,
\* the orchestrator's own default runner included.
C24_Original ==
    \A i, j \in 1..Len(live_runners) : (live_runners[i] = live_runners[j]) => (i = j)

\* the instances the registry constructed
RegistryInstances == (1..Len(live_runners)) \ {orchestrator.runner}

\* C24 amended: the registry holds at most one runner instance per backend
\* type and every resolution of an agent returns the instance held for its
\* type; the orchestrator's default runner is a further instance, constructed
\* outside the registry, that no resolution returns.
C24_OneInstancePerTypeInRegistry ==
    (orchestrator.status = "created") =>
        /\ \A i, j \in RegistryInstances : (live_runners[i] = live_runners[j]) => (i = j)
        /\ (resolved.agent # None)
              => /\ resolved.runner = registry._runners[live_runners[resolved.runner]]
                 /\ resolved.runner \in RegistryInstances

C24_Witness ==
    /\ orchestrator.status = "created"
    /\ resolved.agent = "execution-test-critique"
    /\ live_runners[resolved.runner] = "claude"
    /\ live_runners[orchestrator.runner] = "claude"
    /\ Cardinality({a \in MappedAgents : AgentRunnerType(registry, a) = "claude"}) >= 3


----------------------------------------------------------------------------
(* One backend call of a runner (saha/runners/claude.py, codex.py).  The    *)
(* subprocess closes its stdout at eof_at and exits at finish_at, counted   *)
(* in seconds from the start of the call; Never is a process that is still  *)
(* running when the observation ends.                                       *)

\* ClaudeRunner._execute_with_capture, ClaudeRunner._execute_with_streaming
\* (stream_output=True, as the registry constructs it) and CodexRunner._run
ExecutionModes == {"capture", "streaming", "codex"}

Never == MaxClock + 1

Exited == subprocess.killed \/ clock >= subprocess.finish_at

StdoutClosed == subprocess.killed \/ clock >= subprocess.eof_at

\* the result built after the process has exited
ProcessResult(sp) ==
    IF sp.returncode # 0
    THEN [success |-> FALSE, output |-> "O1", error |-> "Exit code", exit_code |-> sp.returncode]
    ELSE success_result("O1")

TimedOut == failure("Command timed out", 124)

\* Runner.run_agent up to subprocess.Popen
RunAgent(mode, timeout, eof_at, finish_at, returncode) ==
    /\ runner_call.at = "none"
    /\ eof_at <= finish_at
    /\ runner_call' = [mode |-> mode, timeout |-> timeout,
                       at |-> IF mode = "streaming" THEN "reading" ELSE "waiting",
                       wait_from |-> 0, result |-> NoResult]
    /\ subprocess' = [eof_at |-> eof_at, finish_at |-> finish_at,
                      returncode |-> returncode, killed |-> FALSE]
    /\ clock' = 0
    /\ UNCHANGED << orchestrator_vars, registry_vars, normalizer_vars, plan_vars, previous_handler >>

\* _execute_with_streaming: `for line in process.stdout` ends when the
\* process closes its stdout; no timeout applies to the loop
StreamEnds ==
    /\ runner_call.at = "reading"
    /\ StdoutClosed
    /\ runner_call' = [runner_call EXCEPT !.at = "waiting", !.wait_from = clock]
    /\ UNCHANGED << subprocess, clock >>
    /\ UNCHANGED << orchestrator_vars, registry_vars, normalizer_vars, plan_vars, previous_handler >>

WaitExpired == clock >= runner_call.wait_from + runner_call.timeout

\* process.communicate(timeout=timeout) / process.wait(timeout=timeout)
\* returns, or raises TimeoutExpired: the process is killed and the call
\* returns the failure with exit code 124
WaitEnds ==
    /\ runner_call.at = "waiting"
    /\ Exited \/ WaitExpired
    /\ IF Exited
       THEN /\ runner_call' = [runner_call EXCEPT !.at = "returned",
                                                  !.result = ProcessResult(subprocess)]
            /\ UNCHANGED subprocess
       ELSE /\ runner_call' = [runner_call EXCEPT !.at = "returned", !.result = TimedOut]
            /\ subprocess' = [subprocess EXCEPT !.killed = TRUE]
    /\ UNCHANGED clock
    /\ UNCHANGED << orchestrator_vars, registry_vars, normalizer_vars, plan_vars, previous_handler >>

\* a second passes while the runner is blocked
Tick ==
    /\ runner_call.at \in {"reading", "waiting"}
    /\ ~(runner_call.at = "reading" /\ StdoutClosed)
    /\ ~(runner_call.at = "waiting" /\ (Exited \/ WaitExpired))
    /\ clock < MaxClock
    /\ clock' = clock + 1
    /\ UNCHANGED << runner_call, subprocess >>
    /\ UNCHANGED << orchestrator_vars, registry_vars, normalizer_vars, plan_vars, previous_handler >>

CallNext ==
    \/ \E mode \in ExecutionModes, timeout \in 1..MaxTimeout,
          eof_at \in 1..MaxClock, finish_at \in (1..MaxClock) \cup {Never},
          returncode \in {0, 1} :
            RunAgent(mode, timeout, eof_at, finish_at, returncode)
    \/ StreamEnds
    \/ WaitEnds
    \/ Tick

SpecBackendCall == Init /\ [][CallNext]_vars

\* C25: every backend call is bounded by its timeout: a call is not under
\* way after its timeout has elapsed, and when the subprocess has not
\* finished by then the call returns the failure result with exit code 124.
C25_CallBoundedByTimeout ==
    /\ (runner_call.at \in {"reading", "waiting"}) => (clock <= runner_call.timeout)
    /\ (runner_call.at = "returned" /\ subprocess.finish_at > runner_call.timeout)
          => /\ ~runner_call.result.success
             /\ runner_call.result.error # None
             /\ runner_call.result.exit_code = 124


----------------------------------------------------------------------------
(* JSON extraction from agent output: saha/runners/_utils.py (try_parse_json), *)
(* ClaudeRunner._try_parse_json, CodexRunner._try_parse_json and             *)
(* GeminiRunner._try_parse_json.  The text is a sequence of segments: a line  *)
(* of prose, a fenced ```json block holding one line, or a standalone line.   *)
(* The line of a block or standalone segment is named by what json.loads      *)
(* makes of it.                                                              *)

\* one-line JSON texts: two objects, the empty object, an array, and a
\* brace-balanced line that is not JSON
JsonObjects == {"OBJ1", "OBJ2", "EMPTY"}
JsonLines == JsonObjects \cup {"ARRAY", "BAD"}

Prose == [seg |-> "prose", line |-> "text"]
Fenced(line) == [seg |-> "fenced", line |-> line]
Standalone(line) == [seg |-> "standalone", line |-> line]

Segments == {Prose} \cup {Fenced(l) : l \in JsonLines} \cup {Standalone(l) : l \in JsonLines}

Texts == UNION {[1..n -> Segments] : n \in 1..MaxSegments}

\* isinstance(json.loads(line), dict)
IsDict(line) == line \in JsonObjects

\* `x or y` for a parsed dict: the empty dict is falsy
Truthy(value) == value \notin {None, "EMPTY"}

\* re.findall(r"```json\s*\n(.*?)\n```", output, re.DOTALL)
FencedMatches(text) ==
    LET blocks == SelectSeq(text, LAMBDA g : g.seg = "fenced")
    IN  [i \in 1..Len(blocks) |-> blocks[i].line]

\* the brace-balanced blocks collected line by line: every line that starts
\* with "{", inside a fence or not
BraceBlocks(text) ==
    LET blocks == SelectSeq(text, LAMBDA g : g.seg # "prose" /\ g.line # "ARRAY")
    IN  [i \in 1..Len(blocks) |-> blocks[i].line]

\* the first / last element of a sequence of lines that parses to a dict
FirstDict(lines) ==
    IF \E i \in 1..Len(lines) : IsDict(lines[i])
    THEN lines[CHOOSE i \in 1..Len(lines) :
                  IsDict(lines[i]) /\ \A j \in 1..(i - 1) : ~IsDict(lines[j])]
    ELSE None

LastDict(lines) ==
    IF \E i \in 1..Len(lines) : IsDict(lines[i])
    THEN lines[CHOOSE i \in 1..Len(lines) :
                  IsDict(lines[i]) /\ \A j \in (i + 1)..Len(lines) : ~IsDict(lines[j])]
    ELSE None

parse_json_from_markdown(text) == FirstDict(FencedMatches(text))

parse_json_by_braces(text) == FirstDict(BraceBlocks(text))

\* _utils.try_parse_json: `_parse_json_from_markdown(output) or _parse_json_by_braces(output)`
try_parse_json(text) ==
    IF Truthy(parse_json_from_markdown(text))
    THEN parse_json_from_markdown(text)
    ELSE parse_json_by_braces(text)

\* ClaudeRunner._try_parse_json and CodexRunner._try_parse_json: the matches
\* and then the brace blocks are tried from last to first
runner_try_parse_json(text) ==
    IF LastDict(FencedMatches(text)) # None
    THEN LastDict(FencedMatches(text))
    ELSE LastDict(BraceBlocks(text))

\* the lines of the text as output.split("\n") yields them
\* the opening line of a fenced JSON block and the line that closes it
FenceOpen == "fence json"
FenceClose == "fence"

LinesOf(g) ==
    IF g.seg = "fenced" THEN << FenceOpen, g.line, FenceClose >> ELSE << g.line >>

RECURSIVE Lines(_)
Lines(text) == IF text = << >> THEN << >> ELSE LinesOf(Head(text)) \o Lines(Tail(text))

StartsWithBrace(line) == line \in JsonObjects \cup {"BAD"}

\* the loop of GeminiRunner._try_parse_json over the lines from position i on
RECURSIVE gemini_json_lines(_, _, _, _)
gemini_json_lines(lines, i, in_json, json_lines) ==
    IF i > Len(lines) THEN json_lines
    ELSE IF StartsWithBrace(lines[i]) \/ lines[i] = FenceOpen
         THEN gemini_json_lines(lines, i + 1, TRUE,
                                IF lines[i] # FenceOpen THEN Append(json_lines, lines[i])
                                                        ELSE json_lines)
    ELSE IF in_json
         THEN IF lines[i] = FenceClose THEN json_lines
              ELSE gemini_json_lines(lines, i + 1, TRUE, Append(json_lines, lines[i]))
    ELSE gemini_json_lines(lines, i + 1, FALSE, json_lines)

\* GeminiRunner._try_parse_json: json.loads of the joined lines, returned
\* without a type test; several lines joined are not one JSON document
gemini_try_parse_json(text) ==
    LET json_lines == gemini_json_lines(Lines(text), 1, FALSE, << >>)
    IN  IF Len(json_lines) = 1 /\ json_lines[1] \in JsonObjects \cup {"ARRAY"}
        THEN json_lines[1]
        ELSE None

Parsers == {"claude", "codex", "gemini", "shared"}

extract_json(parser, text) ==
    CASE parser \in {"claude", "codex"} -> runner_try_parse_json(text)
      [] parser = "gemini" -> gemini_try_parse_json(text)
      [] parser = "shared" -> try_parse_json(text)

\* a backend returned this text as the agent's output
AgentReturns(text) ==
    /\ agent_text = << >>
    /\ agent_text' = text
    /\ UNCHANGED << structured_output, raw_usage, token_usage >>
    /\ UNCHANGED << orchestrator_vars, registry_vars, call_vars, plan_vars, previous_handler >>

\* the runner, or a caller of the shared helper, extracts the JSON
ExtractJson(parser) ==
    /\ agent_text # << >>
    /\ structured_output.parser = "none"
    /\ structured_output' = [parser |-> parser, value |-> extract_json(parser, agent_text)]
    /\ UNCHANGED << agent_text, raw_usage, token_usage >>
    /\ UNCHANGED << orchestrator_vars, registry_vars, call_vars, plan_vars, previous_handler >>

ExtractionNext ==
    \/ \E text \in Texts : AgentReturns(text)
    \/ \E parser \in Parsers : ExtractJson(parser)

SpecJsonExtraction == Init /\ [][ExtractionNext]_vars

AllFencedAreObjects ==
    \A i \in 1..Len(FencedMatches(agent_text)) : IsDict(FencedMatches(agent_text)[i])

StandaloneLines ==
    LET alone == SelectSeq(agent_text, LAMBDA g : g.seg = "standalone")
    IN  [i \in 1..Len(alone) |-> alone[i].line]

\* C27: for the output of any backend, of several fenced JSON blocks that
\* each parse to an object the structured output is the last one, and
\* without a fenced block it is the last standalone JSON object of the text.
C27_LastWins ==
    (structured_output.parser \in {"claude", "codex", "gemini"}) =>
        /\ (Len(FencedMatches(agent_text)) >= 2 /\ AllFencedAreObjects)
              => structured_output.value
                    = FencedMatches(agent_text)[Len(FencedMatches(agent_text))]
        /\ (Len(FencedMatches(agent_text)) = 0)
              => structured_output.value = LastDict(StandaloneLines)

\* C28: the shared helper try_parse_json returns the first fenced block that
\* is a valid JSON object when the text contains several fenced JSON blocks.
C28_SharedHelperFirstWins ==
    (/\ structured_output.parser = "shared"
     /\ Len(FencedMatches(agent_text)) >= 2
     /\ FirstDict(FencedMatches(agent_text)) # None)
        => structured_output.value = FirstDict(FencedMatches(agent_text))


----------------------------------------------------------------------------
(* Token usage normalization: saha/runners/usage.py.  The targets modelled  *)
(* are the three the total depends on; the cache and reasoning targets are   *)
(* copied the same way and take no part in the total.                        *)

Targets == << "input_tokens", "output_tokens", "total_tokens" >>

ALIAS_MAP ==
    [input_tokens |-> << "input_tokens", "prompt_tokens", "prompt", "input" >>,
     output_tokens |-> << "output_tokens", "completion_tokens", "completion", "output" >>,
     total_tokens |-> << "total_tokens", "total_token_usage", "total" >>]

AliasesOf(target) == {ALIAS_MAP[target][k] : k \in 1..Len(ALIAS_MAP[target])}

Aliases == UNION {AliasesOf(Targets[t]) : t \in 1..Len(Targets)}

\* a value of the raw map: a bool, which is skipped (written -1 here), or a
\* count
BoolValue == -1
UsageValues == {BoolValue} \cup (0..MaxTokens)

RawUsages ==
    UNION {[K -> UsageValues] : K \in {S \in SUBSET Aliases : Cardinality(S) <= MaxKeys}}

\* isinstance(value, (int, float)) for a value that is not a bool
IsCount(raw, alias) == alias \in DOMAIN raw /\ raw[alias] # BoolValue

\* the inner loop: the first alias of the target that holds a count
FirstAlias(raw, target) ==
    LET aliases == ALIAS_MAP[target]
    IN  IF \E k \in 1..Len(aliases) : IsCount(raw, aliases[k])
        THEN aliases[CHOOSE k \in 1..Len(aliases) :
                        /\ IsCount(raw, aliases[k])
                        /\ \A j \in 1..(k - 1) : ~IsCount(raw, aliases[j])]
        ELSE None

\* the result dict after the loop over _ALIAS_MAP
Collected(raw) ==
    LET found == {Targets[t] : t \in {u \in 1..Len(Targets) : FirstAlias(raw, Targets[u]) # None}}
    IN  [target \in found |-> raw[FirstAlias(raw, target)]]

\* result.get(key, default)
GetOr(d, k, default) == IF k \in DOMAIN d THEN d[k] ELSE default

normalize_token_usage(raw) ==
    LET result == Collected(raw)
        input_tokens == GetOr(result, "input_tokens", 0)
        output_tokens == GetOr(result, "output_tokens", 0)
    IN  IF DOMAIN result = {} THEN [returned |-> "None", usage |-> << >>]
        ELSE IF "total_tokens" \notin DOMAIN result /\ (input_tokens # 0 \/ output_tokens # 0)
             THEN [returned |-> "dict",
                   usage |-> [k \in DOMAIN result \cup {"total_tokens"} |->
                                 IF k = "total_tokens" THEN input_tokens + output_tokens
                                                       ELSE result[k]]]
        ELSE [returned |-> "dict", usage |-> result]

\* a runner found this usage payload in the backend's output and normalizes it
ExtractTokenUsage(raw) ==
    /\ ~raw_usage.given
    /\ raw_usage' = [given |-> TRUE, raw |-> raw]
    /\ token_usage' = normalize_token_usage(raw)
    /\ UNCHANGED << agent_text, structured_output >>
    /\ UNCHANGED << orchestrator_vars, registry_vars, call_vars, plan_vars, previous_handler >>

UsageNext == \E raw \in RawUsages : ExtractTokenUsage(raw)

SpecTokenUsage == Init /\ [][UsageNext]_vars

\* the counts the raw map carries under the aliases of a target
CountsUnder(raw, target) == {raw[a] : a \in {b \in AliasesOf(target) : IsCount(raw, b)}}

\* C29: a raw usage map with an input count i and an output count o under
\* recognised aliases and no total under any alias is normalized to
\* input_tokens = i, output_tokens = o and total_tokens = i + o, also when
\* i and o are both zero.
C29_TotalIsSum ==
    raw_usage.given =>
        \A i \in CountsUnder(raw_usage.raw, "input_tokens"),
           o \in CountsUnder(raw_usage.raw, "output_tokens") :
            (/\ CountsUnder(raw_usage.raw, "input_tokens") = {i}
             /\ CountsUnder(raw_usage.raw, "output_tokens") = {o}
             /\ AliasesOf("total_tokens") \cap DOMAIN raw_usage.raw = {})
                => /\ token_usage.returned = "dict"
                   /\ DOMAIN token_usage.usage = {"input_tokens", "output_tokens", "total_tokens"}
                   /\ token_usage.usage["input_tokens"] = i
                   /\ token_usage.usage["output_tokens"] = o
                   /\ token_usage.usage["total_tokens"] = i + o

----------------------------------------------------------------------------
(* Step records of the gates *)

\* the gate's call failed (error result, timeout) or its payload rejects
GateFailed(res) == ~res.success \/ (res.so = "dict" /\ res.flag = "false")

HasFailedStepWithText(rec, phase) ==
    \E k \in 1..Len(rec.steps) :
        /\ rec.steps[k].phase = phase
        /\ rec.steps[k].status = STEP_FAILED
        /\ ~Falsy(rec.steps[k].error)

FailureRecorded(phase) ==
    /\ HasFailedStepWithText(current_iteration_record(state'), phase)
    /\ ~HasStep(current_iteration_record(state'), phase, STEP_COMPLETED)

\* C31: every failure of TestCritique, Verification or CodeQuality (the
\* backend returns a failure or times out, or the gate rejects the result)
\* leaves in the current iteration a failed step of that phase with a
\* non-empty error text, and no completed step of that phase.
C31_GateFailureRecorded ==
    [][ /\ (Receives("crit_call", TEST_CRITIQUE) /\ GateFailed(last_call'))
            => FailureRecorded(TEST_CRITIQUE)
        /\ (Receives("qa_call", QA) /\ GateFailed(last_call'))
            => FailureRecorded(QA)
        /\ (Receives("cq_call", CODE_QUALITY) /\ GateFailed(last_call'))
            => FailureRecorded(CODE_QUALITY) ]_vars

----------------------------------------------------------------------------
(* One run() call that retries: no interrupt, no crash, no failure of the    *)
(* plan updater; a manager agent and a DoD agent exist.  The iteration       *)
(* ceiling of the call is MaxRetries.                                        *)

RetryNext ==
    \/ \E d \in PlanSelections : runs = 0 /\ Run(MaxRetries, d)
    \/ LoopTop(FALSE)
    \/ \E r \in ImplResults : ImplReturn(r, TRUE)
    \/ \E e \in BOOLEAN : StartTestCritique(e)
    \/ \E r \in GateResults : CritiqueReturn(r, TRUE)
    \/ StartQA
    \/ \E r \in GateResults : QAReturn(r, TRUE)
    \/ StartCodeQuality
    \/ \E r \in GateResults : CodeQualityReturn(r, TRUE)
    \/ StartManager(TRUE)
    \/ \E r \in ManagerResults : ManagerReturn(r)
    \/ StartDodCheck(TRUE)
    \/ \E r \in DodResults : DodReturn(r, FALSE)
    \/ \E r \in ManagerResults : StopManagerReturn(r)

SpecRetry == Init /\ [][RetryNext]_vars

\* iteration i went as far as the gate and did not get past it
FailedAt(rec, gate) ==
    CASE gate = TEST_CRITIQUE ->
            HasStep(rec, TEST_CRITIQUE, IN_PROGRESS) /\ ~rec.test_critique_passed
      [] gate = QA ->
            HasStep(rec, QA, IN_PROGRESS) /\ ~rec.dod_achieved
      [] gate = CODE_QUALITY ->
            HasStep(rec, CODE_QUALITY, IN_PROGRESS) /\ ~rec.quality_passed

PassedAt(rec, gate) ==
    CASE gate = TEST_CRITIQUE -> rec.test_critique_passed
      [] gate = QA -> rec.dod_achieved
      [] gate = CODE_QUALITY -> rec.quality_passed

\* C32: fix info stored after a gate failure is cleared once that gate
\* succeeds: when a gate failed in iteration i with fix info F and passes in
\* iteration i+1, no Implementation invocation of iteration i+2 or later
\* receives F (unless a gate failure after iteration i stored F again).
C32_FixInfoCleared ==
    \A i \in 1..Len(state.iterations) : \A j \in (i + 2)..Len(impl_calls) :
        \A gate \in Gates :
            (/\ state.iterations[i].fix_info # None
             /\ FailedAt(state.iterations[i], gate)
             /\ PassedAt(state.iterations[i + 1], gate)
             /\ \A k \in (i + 1)..(j - 1) : state.iterations[k].fix_info = None)
                => impl_calls[j].fix_info # state.iterations[i].fix_info

\* a status that ends a step
StepOver == {STEP_COMPLETED, STEP_FAILED, "skipped"}

\* a status of a step that is still to be done
StepOpen == {IN_PROGRESS, "pending"}

\* C33: within one iteration a phase's step status only moves forward: after
\* a completed, failed or skipped step of a phase, no in-progress or pending
\* step of the same phase is recorded in that iteration, also not by the
\* Manager update after a failed gate or by the interrupt path.
C33_StepsNeverResurrected ==
    \A i \in 1..Len(state.iterations) :
        \A a \in 1..Len(state.iterations[i].steps) :
            \A b \in (a + 1)..Len(state.iterations[i].steps) :
                (/\ state.iterations[i].steps[a].phase = state.iterations[i].steps[b].phase
                 /\ state.iterations[i].steps[a].status \in StepOver)
                    => state.iterations[i].steps[b].status \notin StepOpen

\* an interrupt arrived after the Manager update that followed a rejecting
\* Verification had completed
C33_Witness ==
    /\ pc = "idle"
    /\ outcome = "returned"
    /\ interrupt_count = 1
    /\ state.current_phase = STOPPED
    /\ last_call.phase = QA
    /\ HasStep(current_iteration_record(state), MANAGER, STEP_COMPLETED)
    /\ CountSteps(current_iteration_record(state), MANAGER, IN_PROGRESS) = 1

\* the positions at which a backend call is in flight, the Manager call of
\* the interrupt path included
BackendPcs == CallPcs \cup {"intmgr_call"}

\* C34: terminal phases are absorbing within a run: once the current phase
\* is Completed, Failed or Stopped, the run invokes no backend, opens no
\* iteration record and never changes the current phase.
C34_TerminalAbsorbing ==
    [][ (pc # "idle" /\ state.current_phase \in Terminal)
            => /\ state'.current_phase = state.current_phase
               /\ pc' \notin BackendPcs
               /\ Len(state'.iterations) = Len(state.iterations) ]_vars

\* the gate flags of an iteration record are set in pipeline order
FlagsOrdered(rec) ==
    /\ rec.quality_passed => rec.dod_achieved
    /\ rec.dod_achieved => rec.test_critique_passed

AllFlags(rec) == rec.test_critique_passed /\ rec.dod_achieved /\ rec.quality_passed

FlagsConsistent(s) ==
    /\ \A i \in 1..Len(s.iterations) : FlagsOrdered(s.iterations[i])
    /\ s.current_phase = COMPLETED
          => (s.iterations # << >> /\ AllFlags(s.iterations[Len(s.iterations)]))

\* C35: in every iteration record, in memory and in the persisted document,
\* quality-passed implies verification-passed and verification-passed
\* implies tests-accepted; whenever the run is Completed, all three flags
\* are true in the last iteration record.
C35_GateFlagsOrdered ==
    /\ FlagsConsistent(state)
    /\ disk.exists => FlagsConsistent(disk.doc)

C35_Witness ==
    /\ state.current_phase = COMPLETED
    /\ disk.exists /\ disk.doc.current_phase = COMPLETED
    /\ Len(state.iterations) = 2
    /\ state.iterations[1].dod_achieved
    /\ ~state.iterations[1].quality_passed
    /\ AllFlags(state.iterations[2])

----------------------------------------------------------------------------
(* Timeouts of the phases' backend calls: the per-agent timeout of the      *)
(* runner configuration (config/settings.py AgentRunnerConfig.timeout,      *)
(* copied into AgentConfig.timeout by create_runner_registry) and the        *)
(* timeout the loop's phase methods pass to Runner.run_agent.                *)

\* the default of the `timeout` parameter of Runner.run_agent and of _run_manager
DefaultTimeout == 300

\* the timeout _handle_interrupt gives its Manager update
InterruptTimeout == 10

ConfiguredTimeouts == {DefaultTimeout} \cup (1..MaxTimeout)

\* create_runner_registry: configure_agent(AgentConfig(..., timeout=config.timeout))
configure_agents(s, timeouts) ==
    LET reg == create_runner_registry(s)
    IN  [_runners |-> reg._runners,
         _default_runner_type |-> reg._default_runner_type,
         _agent_configs |-> reg._agent_configs,
         _agent_timeouts |-> timeouts]

\* the timeout a phase method passes: only _run_manager passes one, its own
\* parameter; the other phases leave run_agent's default in force
PassedTimeout(agent, on_interrupt) ==
    IF agent = "execution-manager" /\ on_interrupt THEN InterruptTimeout ELSE DefaultTimeout

\* the orchestrator is built from settings with these per-agent timeouts
ConfigureAgents(timeouts) ==
    /\ orchestrator.status = "none"
    /\ registry' = configure_agents(settings, timeouts)
    /\ orchestrator' = [status |-> "created", unavailable |-> {}, runner |-> 0]
    /\ UNCHANGED << settings, installed, live_runners, resolved >>
    /\ UNCHANGED << orchestrator_vars, call_vars, normalizer_vars, plan_vars, previous_handler >>

\* a phase method of the loop: _get_runner_for_agent, then runner.run_agent
PhaseCall(agent, on_interrupt) ==
    /\ orchestrator.status = "created"
    /\ runner_call.at = "none"
    /\ on_interrupt => agent = "execution-manager"
    /\ LET got == get_runner_for_agent(registry, live_runners, agent)
       IN  /\ registry' = got.registry
           /\ live_runners' = got.live
           /\ resolved' = [agent |-> agent, runner |-> got.runner]
    /\ runner_call' = [NoRunnerCall EXCEPT !.at = "called",
                                           !.timeout = PassedTimeout(agent, on_interrupt)]
    /\ UNCHANGED << settings, installed, orchestrator, subprocess, clock >>
    /\ UNCHANGED << orchestrator_vars, normalizer_vars, plan_vars, previous_handler >>

\* Runner.run_agent returned
PhaseCallReturns ==
    /\ runner_call.at = "called"
    /\ runner_call' = NoRunnerCall
    /\ resolved' = NotResolved
    /\ UNCHANGED << settings, installed, registry, live_runners, orchestrator,
                    subprocess, clock >>
    /\ UNCHANGED << orchestrator_vars, normalizer_vars, plan_vars, previous_handler >>

TimeoutNext ==
    \/ \E timeouts \in [MappedAgents -> ConfiguredTimeouts] : ConfigureAgents(timeouts)
    \/ \E a \in AgentNames, i \in BOOLEAN : PhaseCall(a, i)
    \/ PhaseCallReturns

SpecPhaseTimeout == Init /\ [][TimeoutNext]_vars

\* C36: for every phase, the timeout passed to the backend equals the
\* timeout configured for that phase's agent in the runner configuration.
C36_ConfiguredTimeoutPassed ==
    (runner_call.at = "called" /\ resolved.agent \in MappedAgents)
        => runner_call.timeout = registry._agent_timeouts[resolved.agent]

\* the run returned because the iteration ceiling was reached: no interrupt
\* and no terminal phase ended it
EndedAtCeiling ==
    /\ pc = "idle"
    /\ outcome = "returned"
    /\ interrupt_count = 0
    /\ state.max_iterations >= 1
    /\ state.current_phase \notin Terminal

\* C37: when a run with max_iterations >= 1 ends by reaching the iteration
\* ceiling, the persisted current phase is the phase of the gate that
\* stopped the last iteration or CompletionCheck; it is not Manager, also
\* after the Manager update that follows a failed gate, and not terminal.
C37_CeilingPhase ==
    EndedAtCeiling =>
        /\ state.current_iteration = state.max_iterations
        /\ disk.exists
        /\ disk.doc.current_phase = state.current_phase
        /\ disk.doc.current_phase \in Gates \cup {DOD_CHECK}
        /\ disk.doc.current_phase \in Gates
              => ~PassedAt(current_iteration_record(state), state.current_phase)

\* the ceiling was reached after Code Quality rejected the last iteration and
\* the Manager update of the failed iteration had completed
C37_Witness ==
    /\ EndedAtCeiling
    /\ disk.exists /\ disk.doc.current_phase = CODE_QUALITY
    /\ state.current_iteration = MaxIterations
    /\ HasStep(current_iteration_record(state), MANAGER, STEP_COMPLETED)
    /\ HasStep(current_iteration_record(state), CODE_QUALITY, STEP_FAILED)

----------------------------------------------------------------------------
(* Selection of the active plan document (saha/orchestrator/plan_progress.py) *)
(* over a task directory with several plan documents.  The documents are      *)
(* owned by others: agents and users write their status lines while the       *)
(* loop runs.                                                                 *)

\* sorted(self._plan_dir.glob("phase-*.md")), relative to the task directory
PlanDocuments == << "implementation-plan/phase-01.md",
                    "implementation-plan/phase-02.md",
                    "implementation-plan/phase-03.md" >>

\* a document that is not in the directory
Missing == "missing"

\* what _read_status_line finds in a document: None without a status line
StatusLines == {None, "In Progress", "Complete", "DONE"}

\* str.lower() on the status values above
Lower(status) ==
    CASE status = "In Progress" -> "in progress"
      [] status = "Complete" -> "complete"
      [] status = "DONE" -> "done"
      [] OTHER -> status

COMPLETE_STATUSES == {"complete", "completed", "done"}

PlanDirs == [1..Len(PlanDocuments) -> StatusLines \cup {Missing}]

\* the phase-*.md files of the directory, by position in name order
PhaseFiles(dir) == {i \in DOMAIN dir : dir[i] # Missing}

\* candidate.exists() for a stored relative path
CandidateExists(dir, stored) ==
    \E i \in PhaseFiles(dir) : PlanDocuments[i] = stored

\* the loop of select_active_phase: `if not status or status.lower() not in {...}`
IsIncomplete(status) == status = None \/ Lower(status) \notin COMPLETE_STATUSES

SmallestOf(S) == CHOOSE i \in S : \A j \in S : i <= j
LargestOf(S) == CHOOSE i \in S : \A j \in S : i >= j

NoSelection == [phase_path |-> None, updated_context |-> FALSE]

\* PlanProgressUpdater.select_active_phase: the stored selection while its
\* file exists, else the first incomplete document, else the last document
select_active_phase(s, dir) ==
    LET stored == DictGet(s.context, "current_plan_phase")
        open == {i \in PhaseFiles(dir) : IsIncomplete(dir[i])}
        path == IF open # {} THEN PlanDocuments[SmallestOf(open)]
                ELSE PlanDocuments[LargestOf(PhaseFiles(dir))]
    IN  IF dir = NoPlanDir THEN NoSelection
        ELSE IF ~Falsy(stored) /\ CandidateExists(dir, stored)
        THEN [phase_path |-> stored, updated_context |-> FALSE]
        ELSE IF PhaseFiles(dir) = {} THEN NoSelection
        ELSE [phase_path |-> path, updated_context |-> stored # path]

\* _prepare_plan_progress: _ensure_phase_context has put the selection into
\* context; the state is saved when that changed it
prepare_plan_progress_in(m, dir) ==
    LET selection == select_active_phase(m.mem, dir)
    IN  IF selection.updated_context
        THEN save([m EXCEPT !.mem.context =
                       DictSet(@, "current_plan_phase", selection.phase_path)])
        ELSE m

\* str(e) of the ValueError of Path.relative_to
SubpathError == "is not in the subpath of the task path"

\* the stored branch of select_active_phase: the candidate is resolved to an
\* absolute path, and _ensure_phase_context takes it relative_to the task
\* path, which raises ValueError unless the task path is absolute as well
StoredSelectionRaises(s, dir, task_path_absolute) ==
    /\ dir # NoPlanDir
    /\ ~Falsy(DictGet(s.context, "current_plan_phase"))
    /\ CandidateExists(dir, DictGet(s.context, "current_plan_phase"))
    /\ ~task_path_absolute

\* the while condition of run(), then _run_iteration up to the Implementation
\* call, the plan documents being those of plan_dir; an exception of the
\* selection leaves the while loop for the except clause of run()
PlanLoopTop(task_path_absolute) ==
    /\ pc = "loop_top"
    /\ last_call' = NoCall
    /\ IF should_continue(state)
       THEN LET m1 == Machine(start_iteration(state), disk)
                m2 == prepare_plan_progress_in(m1, plan_dir)
                m3 == update_phase(m2, IMPLEMENTATION)
            IN  IF StoredSelectionRaises(m1.mem, plan_dir, task_path_absolute)
                THEN /\ Return(mark_failed(m1, SubpathError))
                     /\ selected' = [called |-> TRUE, phase_path |-> None]
                     /\ UNCHANGED << interrupt_count, runs, impl_calls, resumed_from,
                                     plan_doc >>
                ELSE /\ Goto(m3, "impl_call")
                     /\ selected' =
                            [called |-> TRUE,
                             phase_path |-> select_active_phase(m1.mem, plan_dir).phase_path]
                     /\ impl_calls' = Append(impl_calls, ImplementationInput(m3.mem))
                     /\ UNCHANGED << interrupt_count, handler_installed, stopped_at_phase,
                                     stop_reason, outcome, runs, resumed_from, plan_doc >>
       ELSE /\ Return(Here)
            /\ selected' = NotSelected
            /\ UNCHANGED << interrupt_count, runs, impl_calls, resumed_from, plan_doc >>
    /\ UNCHANGED << registry_vars, call_vars, normalizer_vars, plan_dir, previous_handler >>

\* somebody else writes a plan document, before the run or while an agent
\* of the run is at work: the document is created, its status line is
\* rewritten, or it is removed
PlanDocumentWritten(i, status) ==
    /\ pc \in {"idle"} \cup CallPcs
    /\ LET dir == IF plan_dir = NoPlanDir
                  THEN [j \in 1..Len(PlanDocuments) |-> Missing]
                  ELSE plan_dir
       IN  /\ dir[i] # status
           /\ plan_dir' = [dir EXCEPT ![i] = status]
    /\ UNCHANGED << orchestrator_vars, registry_vars, call_vars, normalizer_vars, selected,
                    previous_handler >>

\* one run() call with the Implementation, QA and Code Quality agents only:
\* no interrupt, no crash, no failure of the plan updater
PlanNext ==
    \/ runs = 0 /\ Run(MaxIterations, None)
    \/ \E a \in BOOLEAN : PlanLoopTop(a)
    \/ \E r \in ImplResults : ImplReturn(r, FALSE)
    \/ StartTestCritique(FALSE)
    \/ StartQA
    \/ \E r \in GateResults : QAReturn(r, FALSE)
    \/ StartCodeQuality
    \/ \E r \in GateResults : CodeQualityReturn(r, FALSE)
    \/ StartManager(FALSE)
    \/ StartDodCheck(FALSE)
    \/ \E i \in 1..Len(PlanDocuments), st \in StatusLines \cup {Missing} :
           PlanDocumentWritten(i, st)

SpecPlanSelection == Init /\ [][PlanNext]_vars

\* the first plan document in name order whose status is not a completion marker
FirstIncomplete(dir) ==
    LET open == IF dir = NoPlanDir THEN {}
                ELSE {i \in PhaseFiles(dir) : IsIncomplete(dir[i])}
    IN  IF open = {} THEN None ELSE PlanDocuments[SmallestOf(open)]

\* C38: at the start of every iteration the plan document selected as active
\* is the first plan document in name order whose recorded status is not a
\* completion marker, whenever such a document exists, also after the
\* previously selected document has been marked complete.
C38_FirstIncompleteSelected ==
    [][ (pc = "loop_top" /\ should_continue(state) /\ selected'.called
            /\ FirstIncomplete(plan_dir) # None)
            => selected'.phase_path = FirstIncomplete(plan_dir) ]_vars

----------------------------------------------------------------------------
(* The loop in a process whose SIGINT handler, before run() is called, is    *)
(* any of the handlers signal.signal can report.                             *)

InterruptScopeInit ==
    /\ LoopInit
    /\ RegistryIdle
    /\ CallIdle
    /\ NormalizerIdle
    /\ PlanIdle
    /\ previous_handler \in PreviousHandlers

SpecInterruptScope == InterruptScopeInit /\ [][Next]_vars

\* C39: the interrupt handler is scoped to the run: whenever run() exits, by
\* any path, the SIGINT handler that was in place before the run is in place
\* again, and every run starts with an interrupt count of zero whatever
\* interrupts earlier runs received.
C39_HandlerScoped ==
    [][ /\ (pc # "idle" /\ pc' = "idle" /\ outcome' \in {"returned", "exited"})
            => ~handler_installed'
        /\ (pc = "idle" /\ pc' # "idle") => interrupt_count' = 0 ]_vars

====
